---- MODULE Spec2Model ----
(***************************************************************************)
(* Verification model of the prediction reconciliation engine of the       *)
(* football predictor (src/predictor/analytics.py).                        *)
(*                                                                         *)
(* Number representation.  The Python code computes with floats; the model *)
(* uses fixed point integers:                                              *)
(*   - a probability p in [0,1] is the integer 1000*p (per mille), so      *)
(*     ONE = 1000 is the float 1.0 and 0.01 is 10;                         *)
(*   - a historical percentage q in [0,100] is the integer 10*q (tenths of *)
(*     a percent), so that q/100 as a probability is the same integer;     *)
(*   - a raw classifier prediction r is the integer 100*r (hundredths);    *)
(*   - a team strength s in [0,1] is the integer 2100*s, which makes the   *)
(*     form strength k/21 and every threshold of the code exact.           *)
(* A float division a/b is FDiv: the quotient rounded to the nearest unit. *)
(***************************************************************************)
EXTENDS Integers, FiniteSets, Sequences, TLC

VARIABLES
    \* one direct call of determine_final_prediction
    d_pred, d_probs, d_out,
    \* one call of advanced_predict_match: its position and its locals
    pc, home_cat, away_cat, home_form, away_form, data_empty, model_type,
    is_regressor, input_data, a_probs, a_pred, classes, full_conf, final,
    prob_dict, result,
    \* whether model.predict raised in this call
    predict_raised,
    \* the dataset file as the loader of this call finds it
    data_file,
    \* one direct call of calculate_probabilities_original
    h_in, h_out,
    \* one direct call of get_team_recent_form_original
    f_in, f_out,
    \* one direct call of calculate_team_strength
    f_strength,
    \* load_football_data: the files on disk, the in-memory cache, the shared
    \* cache, the calls made so far, and whether a file was replaced since
    l_files, l_mem, l_redis, l_calls, l_changed,
    \* the team-category index: the module global and the threads inside
    \* advanced_predict_match that use it
    c_cache, c_thr,
    \* RateLimitMiddleware for one IP: the cached counter and the seconds it
    \* has left, the workers inside process_request, the requests admitted and
    \* sent since the last tick of the clock, the 429 answers, whether the
    \* client kept to one request per tick so far, and the requests begun
    r_count, r_ttl, r_thr, r_admitted, r_rejected, r_sent, r_polite, r_started,
    \* the Prediction table, the next id, and the last bulk delete of the
    \* history view
    p_db, p_next, p_last,
    \* the FastAPI services: the engine's result and the probabilities of
    \* the production and the development /predict response
    a_result, a_prod, a_dev,
    \* preprocess_for_models: its _module_teams_cache, the calls made, and
    \* the table and team enumeration of the last call
    e_cache, e_calls, e_last,
    \* the strengths of one match: the fixture, the forms either dataset
    \* yields, the dataset the match was routed to, and the strengths computed
    s_match, s_tables, s_required, s_strengths

vars_dfp == <<d_pred, d_probs, d_out>>
vars_apm == <<pc, home_cat, away_cat, home_form, away_form, data_empty,
              model_type, is_regressor, input_data, a_probs, a_pred, classes,
              full_conf, final, prob_dict, result, predict_raised,
          data_file>>
vars_str == <<f_strength>>
vars_load == <<l_files, l_mem, l_redis, l_calls, l_changed>>
vars_cat == <<c_cache, c_thr>>
vars_rate == <<r_count, r_ttl, r_thr, r_admitted, r_rejected, r_sent, r_polite, r_started>>
vars_pred == <<p_db, p_next, p_last>>
vars_api == <<a_result, a_prod, a_dev>>
vars_enc == <<e_cache, e_calls, e_last>>
vars_sd == <<s_match, s_tables, s_required, s_strengths>>
vars_aux == <<vars_str, vars_load, vars_cat, vars_rate, vars_pred, vars_api, vars_enc, vars_sd>>
vars_hist == <<h_in, h_out, f_in, f_out, vars_aux>>
other_str == <<vars_dfp, vars_apm, h_in, h_out, f_in, f_out, vars_load, vars_cat, vars_rate, vars_pred, vars_api, vars_enc, vars_sd>>
other_load == <<vars_dfp, vars_apm, h_in, h_out, f_in, f_out, vars_str, vars_cat, vars_rate, vars_pred, vars_api, vars_enc, vars_sd>>
other_cat == <<vars_dfp, vars_apm, h_in, h_out, f_in, f_out, vars_str, vars_load, vars_rate, vars_pred, vars_api, vars_enc, vars_sd>>
other_rate == <<vars_dfp, vars_apm, h_in, h_out, f_in, f_out, vars_str, vars_load, vars_cat, vars_pred, vars_api, vars_enc, vars_sd>>
other_pred == <<vars_dfp, vars_apm, h_in, h_out, f_in, f_out, vars_str, vars_load, vars_cat, vars_rate, vars_api, vars_enc, vars_sd>>
other_api == <<vars_dfp, vars_apm, h_in, h_out, f_in, f_out, vars_str, vars_load, vars_cat, vars_rate, vars_pred, vars_enc, vars_sd>>
other_enc == <<vars_dfp, vars_apm, h_in, h_out, f_in, f_out, vars_str, vars_load, vars_cat, vars_rate, vars_pred, vars_api, vars_sd>>
other_sd == <<vars_dfp, vars_apm, h_in, h_out, f_in, f_out, vars_str, vars_load, vars_cat, vars_rate, vars_pred, vars_api, vars_enc>>
vars == <<d_pred, d_probs, d_out, pc, home_cat, away_cat, home_form, away_form,
          data_empty, model_type, is_regressor, input_data, a_probs, a_pred, classes,
          full_conf, final, prob_dict, result, predict_raised,
          data_file, h_in, h_out, f_in, f_out,
          f_strength,
          l_files, l_mem, l_redis, l_calls, l_changed,
          c_cache, c_thr,
          r_count, r_ttl, r_thr, r_admitted, r_rejected, r_sent, r_polite, r_started,
          p_db, p_next, p_last,
          a_result, a_prod, a_dev,
          e_cache, e_calls, e_last,
          s_match, s_tables, s_required, s_strengths>>

----------------------------------------------------------------------------
(* Bounds of the model *)

\* most head-to-head rows counted for one pair of teams
MaxH2H == 22

\* most rows of one fixture direction in the table of a modelled request
MaxRows == 2

----------------------------------------------------------------------------
(* Helpers *)

Abs(x) == IF x < 0 THEN -x ELSE x

\* a / b in floating point, on the fixed point grid (b > 0, a >= 0)
FDiv(a, b) == (2 * a + b) \div (2 * b)

HOME == "Home Team Win"
DRAW == "Draw"
AWAY == "Away Team Win"
Outcomes == {HOME, DRAW, AWAY}

HOME_OR_DRAW == "Home Team Win or Draw"
AWAY_OR_DRAW == "Away Team Win or Draw"
HOME_OR_AWAY == "Home Team Win or Away Team Win"
DoubleChance == {HOME_OR_DRAW, AWAY_OR_DRAW, HOME_OR_AWAY}
INVALID == "Invalid prediction"

NoProbs == [o \in Outcomes |-> -1]

----------------------------------------------------------------------------
(* determine_final_prediction *)

\* the raw predictions a model can hand over: a number (in hundredths), a
\* float NaN, or a class label that float() cannot convert
NumPred(v) == [kind |-> "num", v |-> v, s |-> ""]
StrPred(s) == [kind |-> "str", v |-> 0, s |-> s]
NanPred == [kind |-> "nan", v |-> 0, s |-> ""]

\* float(pred) raises ValueError/TypeError
FloatRaises(pred) == pred.kind = "str"

\* Step 1: the bucket of the raw prediction
model_outcome(pred) ==
    IF pred.kind = "nan" THEN INVALID
    ELSE IF pred.v = 0 THEN AWAY
    ELSE IF pred.v = 100 THEN DRAW
    ELSE IF pred.v = 200 THEN HOME
    ELSE IF 50 <= pred.v /\ pred.v <= 140 THEN AWAY
    ELSE IF 150 <= pred.v /\ pred.v <= 240 THEN DRAW
    ELSE IF 250 <= pred.v /\ pred.v <= 340 THEN HOME
    ELSE INVALID

max_prob(probs) ==
    CHOOSE m \in {probs[o] : o \in Outcomes} : \A o \in Outcomes : probs[o] <= m

highest_outcomes(probs) == {k \in Outcomes : probs[k] = max_prob(probs)}

\* outcomes within 5 percentage points of the maximum, not already highest
close_ties(probs) ==
    {k \in Outcomes : Abs(probs[k] - max_prob(probs)) <= 50
                      /\ k \notin highest_outcomes(probs)}

all_close_outcomes(probs) == highest_outcomes(probs) \cup close_ties(probs)

\* the test of one pair case of the decision table
PairTied(a, b, probs) ==
    \/ (a \in highest_outcomes(probs) /\ b \in highest_outcomes(probs))
    \/ (a \in all_close_outcomes(probs) /\ b \in all_close_outcomes(probs)
        /\ Cardinality(all_close_outcomes(probs)) = 2)

Case1Applies(probs) ==
    Cardinality(highest_outcomes(probs)) = 1 /\ Cardinality(close_ties(probs)) = 0

\* Case 1: one clear historical winner; the model's outcome is returned
Case1Result_hist(mo, probs) == CHOOSE w \in highest_outcomes(probs) : TRUE
Case1Result(mo, probs) == mo

\* Case 2: Home and Away tied
Case2Result(mo, probs) == IF mo = DRAW THEN HOME_OR_AWAY ELSE mo

\* Cases 3 and 4: the pair (a, Draw) is tied, third is the remaining outcome
PairWithDraw_model(third, label, mo, probs) == mo
PairWithDraw(third, label, mo, probs) ==
    IF mo = third THEN label
    ELSE IF mo \in highest_outcomes(probs) THEN mo ELSE label

\* the whole function: the returned label and the branch that returned it
DFP(pred, probs) ==
    IF FloatRaises(pred) THEN [ret |-> HOME, branch |-> "except"]
    ELSE LET mo == model_outcome(pred) IN
      IF mo = INVALID THEN [ret |-> INVALID, branch |-> "invalid"]
      ELSE IF probs = NoProbs THEN [ret |-> mo, branch |-> "noprobs"]
      ELSE IF Case1Applies(probs)
           THEN [ret |-> Case1Result(mo, probs), branch |-> "case1"]
      ELSE IF PairTied(HOME, AWAY, probs)
           THEN [ret |-> Case2Result(mo, probs), branch |-> "case2"]
      ELSE IF PairTied(HOME, DRAW, probs)
           THEN [ret |-> PairWithDraw(AWAY, HOME_OR_DRAW, mo, probs),
                 branch |-> "case3"]
      ELSE IF PairTied(AWAY, DRAW, probs)
           THEN [ret |-> PairWithDraw(HOME, AWAY_OR_DRAW, mo, probs),
                 branch |-> "case4"]
      ELSE IF Cardinality(highest_outcomes(probs)) = 3
           THEN [ret |-> mo, branch |-> "case5"]
      ELSE [ret |-> mo, branch |-> "fallback"]

determine_final_prediction(pred, probs) == DFP(pred, probs).ret

----------------------------------------------------------------------------
(* Historical percentages handed to determine_final_prediction *)

\* percentages of a head-to-head tally: counts / total * 100
TallyPct(hw, d, aw, total) ==
    (HOME :> FDiv(hw * 1000, total)) @@ (DRAW :> FDiv(d * 1000, total))
    @@ (AWAY :> FDiv(aw * 1000, total))

H2HTriples ==
    {TallyPct(c[1], c[2], c[3], c[1] + c[2] + c[3]) :
        c \in {x \in (0..MaxH2H) \X (0..MaxH2H) \X (0..MaxH2H) :
                 x[1] + x[2] + x[3] >= 1 /\ x[1] + x[2] + x[3] <= MaxH2H}}

Triple(h, d, a) == (HOME :> h) @@ (DRAW :> d) @@ (AWAY :> a)

\* the triples of the strength-difference tables
FallbackTriples ==
    {Triple(350, 350, 300), Triple(550, 250, 200), Triple(450, 300, 250),
     Triple(200, 250, 550), Triple(250, 300, 450), Triple(400, 320, 280),
     Triple(280, 320, 400), Triple(330, 340, 330)}

HistInputs == H2HTriples \cup FallbackTriples \cup {NoProbs}

RawPreds ==
    {NumPred(v) : v \in {-100, 0, 30, 49, 50, 100, 140, 141, 145, 149, 150, 200,
                         240, 245, 250, 280, 300, 340, 341, 400}}
    \cup {StrPred(s) : s \in {"H", "D", "A"}} \cup {NanPred}

----------------------------------------------------------------------------
(* Team strength from recent form (ProfessionalFootballAnalytics) *)

form_points(c) == IF c = "W" THEN 3 ELSE IF c = "D" THEN 1 ELSE IF c = "L" THEN 0 ELSE 1

\* the weights [1.0, 1.2, 1.4, 1.6, 1.8], times ten
weights == <<10, 12, 14, 16, 18>>

RECURSIVE SumTo(_, _)
SumTo(f, n) == IF n = 0 THEN 0 ELSE f[n] + SumTo(f, n - 1)

\* weighted_points and max_weighted_points, times ten
weighted_points(form) == SumTo([i \in 1..5 |-> form_points(form[i]) * weights[i]], 5)
max_weighted_points == SumTo([i \in 1..5 |-> 3 * weights[i]], 5)

\* form_strength = weighted_points / max_weighted_points, in units of 1/2100
form_strength(form) == (2100 * weighted_points(form)) \div max_weighted_points

Clamp01(x) == IF x > 2100 THEN 2100 ELSE IF x < 0 THEN 0 ELSE x

calculate_team_strength(form, home_away) ==
    LET fs == form_strength(form) IN
    IF home_away = "home" THEN Clamp01(fs + 168)
    ELSE IF fs > 1260 THEN Clamp01(fs - 42) ELSE Clamp01(fs - 105)

\* home_strength - away_strength of get_enhanced_features
strength_diff(hform, aform) ==
    calculate_team_strength(hform, "home") - calculate_team_strength(aform, "away")

\* the recent forms the form calculator can report for the two teams
HomeForms == {<<"W","W","L","D","L">>, <<"W","D","L","W","D">>,
              <<"W","D","L","L","D">>}
AwayForms == {<<"D","L","D","L","W">>, <<"L","W","W","D","D">>,
              <<"D","W","W","D","D">>}
NoForm == <<>>

----------------------------------------------------------------------------
(* Historical Probability Engine *)

\* the head-to-head rows of one fixture direction, tallied by the result of
\* the row: H, D, A, or U for a result the tally does not recognise (a blank
\* or otherwise coded cell)
Tallies ==
    {t \in [{"H", "D", "A", "U"} -> 0..MaxRows] :
        t["H"] + t["D"] + t["A"] + t["U"] <= MaxRows}
Rows(t) == t["H"] + t["D"] + t["A"] + t["U"]

\* the strength table used when the table is empty or lacks the columns
StrengthTable1(d) ==
    IF Abs(d) < 63 THEN Triple(330, 340, 330)
    ELSE IF Abs(d) < 168 THEN
        LET up == 380 + FDiv(2000 * Abs(d), 2100)
            dn == 320 - FDiv(1500 * Abs(d), 2100)
            total == up + 300 + dn
        IN IF d > 0
           THEN Triple(FDiv(up * 1000, total), FDiv(300 * 1000, total),
                       FDiv(dn * 1000, total))
           ELSE Triple(FDiv(dn * 1000, total), FDiv(300 * 1000, total),
                       FDiv(up * 1000, total))
    ELSE IF d > 420 THEN Triple(580, 240, 180)
    ELSE IF d > 252 THEN Triple(480, 300, 220)
    ELSE IF d > 168 THEN Triple(420, 320, 260)
    ELSE IF d < -420 THEN Triple(180, 240, 580)
    ELSE IF d < -252 THEN Triple(220, 300, 480)
    ELSE IF d < -168 THEN Triple(260, 320, 420)
    ELSE Triple(350, 330, 320)

\* the strength table used when the two teams share no row
StrengthTable2(d) ==
    IF Abs(d) < 105 THEN Triple(350, 350, 300)
    ELSE IF d > 420 THEN Triple(550, 250, 200)
    ELSE IF d > 210 THEN Triple(450, 300, 250)
    ELSE IF d < -420 THEN Triple(200, 250, 550)
    ELSE IF d < -210 THEN Triple(250, 300, 450)
    ELSE IF d > 0 THEN Triple(400, 320, 280)
    ELSE Triple(280, 320, 400)

\* F: rows with home at home and away away; R: the reverse fixtures
calculate_probabilities_original(F, R, schema, d) ==
    IF schema # "v1" THEN StrengthTable1(d)
    ELSE IF Rows(F) + Rows(R) = 0 THEN StrengthTable2(d)
    ELSE TallyPct(F["H"] + R["A"], F["D"] + R["D"], F["A"] + R["H"],
                  Rows(F) + Rows(R))

\* the tally of the Model2 path; the columns are detected from the table
calculate_probabilities_model2(F, R) ==
    IF Rows(F) + Rows(R) = 0 THEN NoProbs
    ELSE TallyPct(F["H"] + R["A"], F["D"] + R["D"], F["A"] + R["H"],
                  Rows(F) + Rows(R))

----------------------------------------------------------------------------
(* prob_dict: a Python dict from slot 0=Away, 1=Draw, 2=Home to a value, as  *)
(* the sequence of its <<key, value>> items in insertion order               *)

PDKeys(pd) == {pd[i][1] : i \in DOMAIN pd}
PDIndex(pd, k) == CHOOSE i \in DOMAIN pd : pd[i][1] = k
PDGet(pd, k, dflt) == IF k \in PDKeys(pd) THEN pd[PDIndex(pd, k)][2] ELSE dflt
PDSet(pd, k, v) ==
    IF k \in PDKeys(pd)
    THEN [i \in DOMAIN pd |-> IF pd[i][1] = k THEN <<k, v>> ELSE pd[i]]
    ELSE Append(pd, <<k, v>>)
PDSum(pd) == SumTo([i \in DOMAIN pd |-> pd[i][2]], Len(pd))
PDMaxVal(pd) == CHOOSE m \in {pd[i][2] : i \in DOMAIN pd} :
                    \A i \in DOMAIN pd : pd[i][2] <= m
PDMinVal(pd) == CHOOSE m \in {pd[i][2] : i \in DOMAIN pd} :
                    \A i \in DOMAIN pd : pd[i][2] >= m
\* max(prob_dict, key=prob_dict.get): the first key holding the maximum
PDArgMax(pd) ==
    pd[CHOOSE i \in DOMAIN pd :
          /\ pd[i][2] = PDMaxVal(pd)
          /\ \A j \in DOMAIN pd : pd[j][2] = PDMaxVal(pd) => i <= j][1]
\* {k: v / total for k, v in prob_dict.items()}
PDNormalize(pd, total) == [i \in DOMAIN pd |-> <<pd[i][1], FDiv(pd[i][2] * 1000, total)>>]

PD3(a, d, h) == <<<<0, a>>, <<1, d>>, <<2, h>>>>
UniformPD == PD3(330, 340, 330)
EmptyPD == <<>>

\* {0: Away/100, 1: Draw/100, 2: Home/100} of a historical triple
HistPD(t) == PD3(t[AWAY], t[DRAW], t[HOME])

outcome_map(k) == IF k = 0 THEN "Away" ELSE IF k = 2 THEN "Home" ELSE "Draw"

----------------------------------------------------------------------------
(* advanced_predict_match *)

Cats == {"main", "other", "none"}

NoResult ==
    [kind |-> "none", prediction_number |-> -1, outcome |-> "", probabilities |-> EmptyPD,
     confidence |-> 0, model_type |-> "", final |-> "", historical_probs |-> NoProbs]

Result(prediction, outcome, pd, confidence, mt, fin, hist) ==
    [kind |-> "result", prediction_number |-> prediction, outcome |-> outcome,
     probabilities |-> pd, confidence |-> confidence, model_type |-> mt,
     final |-> fin, historical_probs |-> hist]

NoPred == [kind |-> "none", v |-> 0, s |-> ""]

InitAPM ==
    /\ pc = "idle"
    /\ home_cat = "none" /\ away_cat = "none"
    /\ home_form = NoForm /\ away_form = NoForm
    /\ data_empty = FALSE
    /\ model_type = ""
    /\ is_regressor = FALSE
    /\ input_data = "unset"
    /\ a_probs = NoProbs
    /\ a_pred = NoPred
    /\ classes = <<>>
    /\ full_conf = <<>>
    /\ final = ""
    /\ prob_dict = EmptyPD
    /\ result = NoResult
    /\ predict_raised = FALSE
    /\ data_file = "unread"

\* the request arrives and is routed by the categories of the two teams
Route ==
    /\ pc = "idle"
    /\ \E hc \in Cats, ac \in Cats : home_cat' = hc /\ away_cat' = ac
    /\ pc' = "routed"
    /\ UNCHANGED <<vars_dfp, vars_hist, predict_raised, data_file>>
    /\ UNCHANGED <<home_form, away_form, data_empty, model_type, is_regressor,
                   input_data, a_probs, a_pred, classes, full_conf, final,
                   prob_dict, result>>

\* what the loader can find in place of the dataset file
FileStates == {"readable", "missing", "unreadable"}

\* a loader whose table for a missing or unreadable file may hold rows
DataEmptyAfterLoad_any(file) == BOOLEAN

\* data.empty of the table load_football_data returns: a missing file gives an
\* empty DataFrame, a file that cannot be read the EmptyDataFrame object, a
\* readable file its table, which may hold no rows
DataEmptyAfterLoad(file) == IF file = "readable" THEN BOOLEAN ELSE {TRUE}

\* load_football_data reads the dataset file, which is not yet cached
Load ==
    /\ pc = "routed"
    /\ \E file \in FileStates :
          /\ data_file' = file
          /\ data_empty' \in DataEmptyAfterLoad(file)
    /\ pc' = "loaded"
    /\ UNCHANGED <<vars_dfp, vars_hist, predict_raised>>
    /\ UNCHANGED <<home_cat, away_cat, home_form, away_form, model_type,
                   is_regressor, input_data, a_probs, a_pred, classes, full_conf,
                   final, prob_dict, result>>

\* the prediction number of the empty-data fallback
EmptyDataPrediction(d, t) ==
    IF Abs(d) < 63 THEN 1
    ELSE IF Abs(d) < 168 THEN
        IF t[HOME] > t[AWAY] /\ t[HOME] > t[DRAW] THEN 2
        ELSE IF t[AWAY] > t[HOME] /\ t[AWAY] > t[DRAW] THEN 0 ELSE 1
    ELSE IF d > 168 THEN 2
    ELSE IF d < -168 THEN 0
    ELSE IF d > 0 THEN 2 ELSE 0

\* get_enhanced_features reads the two teams' recent forms; the forms of one
\* request's teams are the same at every read
ReadForms(hf, af) ==
    /\ hf \in HomeForms /\ af \in AwayForms
    /\ home_form # NoForm => (hf = home_form /\ af = away_form)

\* no data: the form-based fallback result
EmptyDataFallback ==
    /\ pc = "loaded" /\ data_empty
    /\ \E hf \in HomeForms, af \in AwayForms :
          /\ ReadForms(hf, af)
          /\ home_form' = hf /\ away_form' = af
          /\ LET d == strength_diff(hf, af)
                 t == StrengthTable1(d)
                 prediction == EmptyDataPrediction(d, t)
                 pd == HistPD(t)
                 mt == IF home_cat = "other" /\ away_cat = "other"
                       THEN "Model2 (Form-Based Fallback)"
                       ELSE "Model1 (Form-Based Fallback)"
             IN result' = Result(prediction, outcome_map(prediction), pd,
                                 PDMaxVal(pd), mt, "", t)
    /\ pc' = "done"
    /\ UNCHANGED <<vars_dfp, vars_hist, predict_raised, data_file>>
    /\ UNCHANGED <<home_cat, away_cat, data_empty, model_type, is_regressor,
                   input_data, a_probs, a_pred, classes, full_conf, final,
                   prob_dict>>

\* main teams, Model1 loaded, or other teams, Model2 loaded
SelectModel ==
    /\ pc = "loaded" /\ ~data_empty
    /\ \/ /\ home_cat = "main" /\ away_cat = "main"
          /\ model_type' = "Model1"
          /\ is_regressor' = FALSE
       \/ /\ home_cat = "other" /\ away_cat = "other"
          /\ model_type' = "Model2"
          \* a RandomForestRegressor without predict_proba, or a classifier
          /\ is_regressor' \in BOOLEAN
    /\ pc' = "selected"
    /\ UNCHANGED <<vars_dfp, vars_hist, predict_raised, data_file>>
    /\ UNCHANGED <<home_cat, away_cat, home_form, away_form, data_empty,
                   input_data, a_probs, a_pred, classes, full_conf, final,
                   prob_dict, result>>

\* the prediction of the fallback for a missing Model2
Model2FallbackPrediction(goal_diff) ==
    IF Abs(goal_diff) < 210 THEN 1 ELSE IF goal_diff > 315 THEN 2 ELSE 0

Model2FallbackProbs(goal_diff) ==
    IF Abs(goal_diff) < 210 THEN PD3(300, 400, 300)
    ELSE IF goal_diff > 315 THEN PD3(250, 250, 500)
    ELSE PD3(500, 250, 250)

\* other teams, Model2 failed to load: the strength-based fallback result
Model2Fallback ==
    /\ pc = "loaded" /\ ~data_empty
    /\ home_cat = "other" /\ away_cat = "other"
    /\ \E hf \in HomeForms, af \in AwayForms, F \in Tallies, R \in Tallies :
          /\ ReadForms(hf, af)
          /\ home_form' = hf /\ away_form' = af
          /\ LET goal_diff == strength_diff(hf, af)
                 prediction == Model2FallbackPrediction(goal_diff)
                 pd == Model2FallbackProbs(goal_diff)
             IN result' = Result(prediction, outcome_map(prediction), pd,
                                 PDMaxVal(pd), "Model2 (Fallback)", "",
                                 calculate_probabilities_model2(F, R))
    /\ model_type' = "Model2"
    /\ is_regressor' = FALSE
    /\ pc' = "done"
    /\ UNCHANGED <<vars_dfp, vars_hist, predict_raised, data_file>>
    /\ UNCHANGED <<home_cat, away_cat, data_empty, input_data, a_probs, a_pred,
                   classes, full_conf, final, prob_dict>>

\* a team of each category, or a team of neither: no prediction
MixedTeams ==
    /\ pc = "loaded" /\ ~data_empty
    /\ ~(home_cat = "main" /\ away_cat = "main")
    /\ ~(home_cat = "other" /\ away_cat = "other")
    /\ result' = NoResult
    /\ pc' = "done"
    /\ UNCHANGED <<vars_dfp, vars_hist, predict_raised, data_file>>
    /\ UNCHANGED <<home_cat, away_cat, home_form, away_form, data_empty,
                   model_type, is_regressor, input_data, a_probs, a_pred,
                   classes, full_conf, final, prob_dict>>

\* main teams, Model1 failed to load: no prediction
ModelMissing ==
    /\ pc = "loaded" /\ ~data_empty
    /\ home_cat = "main" /\ away_cat = "main"
    /\ model_type' = "Model1"
    /\ is_regressor' = FALSE
    /\ result' = NoResult
    /\ pc' = "done"
    /\ UNCHANGED <<vars_dfp, vars_hist, predict_raised, data_file>>
    /\ UNCHANGED <<home_cat, away_cat, home_form, away_form, data_empty,
                   input_data, a_probs, a_pred, classes, full_conf, final,
                   prob_dict>>

\* None when the table has no row of the fixture, or lacks the v1 columns
compute_mean_for_teams(F, schema) ==
    IF schema = "v1" /\ Rows(F) > 0 THEN "ok" ELSE "none"

\* the historical probabilities and the model type after them
HistoricalProbs(F, R, schema, d) ==
    LET m2 == calculate_probabilities_model2(F, R) IN
    IF model_type = "Model2"
    THEN IF m2 = NoProbs
         THEN [probs |-> calculate_probabilities_original(F, R, schema, d),
               model_type |-> "Model2 (Form-based)"]
         ELSE [probs |-> m2, model_type |-> model_type]
    ELSE [probs |-> calculate_probabilities_original(F, R, "v1", d),
          model_type |-> model_type]

\* the feature row and the historical probabilities of the fixture; the table
\* holds the rows F and R of the two teams, preprocess_ok says whether
\* preprocess_for_models builds a feature row from it; the teams' forms are
\* read only when the table has no row of the two teams
BuildFeatures ==
    /\ pc = "selected"
    /\ \E F \in Tallies, R \in Tallies, schema \in {"v1", "v2"},
          preprocess_ok \in BOOLEAN :
          /\ model_type = "Model1" => (schema = "v1" /\ ~preprocess_ok)
          /\ input_data' = IF model_type = "Model2" /\ preprocess_ok THEN "ok"
                           ELSE compute_mean_for_teams(F, schema)
          /\ \/ /\ Rows(F) + Rows(R) > 0
                /\ a_probs' = HistoricalProbs(F, R, schema, 0).probs
                /\ model_type' = HistoricalProbs(F, R, schema, 0).model_type
                /\ UNCHANGED <<home_form, away_form>>
             \/ /\ Rows(F) + Rows(R) = 0
                /\ \E hf \in HomeForms, af \in AwayForms :
                      /\ ReadForms(hf, af)
                      /\ home_form' = hf /\ away_form' = af
                      /\ a_probs' = HistoricalProbs(F, R, schema,
                                                    strength_diff(hf, af)).probs
                      /\ model_type' = HistoricalProbs(F, R, schema,
                                                       strength_diff(hf, af)).model_type
    /\ pc' = "features"
    /\ UNCHANGED <<vars_dfp, vars_hist, predict_raised, data_file>>
    /\ UNCHANGED <<home_cat, away_cat, data_empty, is_regressor, a_pred, classes,
                   full_conf, final, prob_dict, result>>

\* no feature row: the result is read off the historical probabilities
NoFeaturesFallback ==
    /\ pc = "features" /\ input_data = "none"
    /\ LET total_prob == a_probs[HOME] + a_probs[DRAW] + a_probs[AWAY]
           norm(v) == IF total_prob > 0 THEN FDiv(v * 1000, total_prob) ELSE v
           prob_home == norm(a_probs[HOME])
           prob_draw == norm(a_probs[DRAW])
           prob_away == norm(a_probs[AWAY])
           prediction == IF prob_home > prob_draw /\ prob_home > prob_away THEN 2
                         ELSE IF prob_away > prob_home /\ prob_away > prob_draw THEN 0
                         ELSE 1
           pd == PD3(prob_away, prob_draw, prob_home)
           mt == IF model_type = "Model2" THEN "Model2 (Fallback)" ELSE model_type
       IN /\ result' = Result(prediction, outcome_map(prediction), pd, PDMaxVal(pd),
                              mt, "", a_probs)
          /\ model_type' = mt
          /\ prob_dict' = pd
    /\ pc' = "done"
    /\ UNCHANGED <<vars_dfp, vars_hist, predict_raised, data_file>>
    /\ UNCHANGED <<home_cat, away_cat, home_form, away_form, data_empty,
                   is_regressor, input_data, a_probs, a_pred, classes, full_conf,
                   final>>

\* model.classes_ of a classifier; <<>> is a model without the attribute
ClassLists ==
    {<<NumPred(0), NumPred(100), NumPred(200)>>,
     <<NumPred(100), NumPred(200), NumPred(300)>>,
     <<StrPred("A"), StrPred("D"), StrPred("H")>>,
     <<>>}

\* model.predict_proba(input_data)[0], in class order; the third holds a
\* percentage where a probability belongs
Probas ==
    {<<330, 340, 330>>, <<200, 300, 500>>, <<500, 300, 200>>, <<65000, 200, 150>>}
\* predict_proba raises
NoProba == <<>>

\* proba.argmax(): the first index of the maximum, counted from 0
ArgMaxIndex(proba) ==
    (CHOOSE i \in DOMAIN proba :
        /\ \A j \in DOMAIN proba : proba[j] <= proba[i]
        /\ \A j \in DOMAIN proba : proba[j] = proba[i] => i <= j) - 1

\* (pred_label, pred_conf, full_conf)[2]: dict(zip(classes_, proba)), or None,
\* written <<>>, when predict_proba or classes_ raises
predict_with_confidence(cls, proba) ==
    IF proba = NoProba \/ cls = <<>> THEN <<>>
    ELSE [i \in DOMAIN cls |-> <<cls[i], proba[i]>>]

\* the labels model.predict can return; a model without classes_ can return
\* any number
PredictLabels(cls) ==
    IF cls = <<>> THEN {NumPred(0), NumPred(100), NumPred(200), NumPred(400)}
    ELSE {cls[i] : i \in DOMAIN cls}

\* total goals a regressor predicts
TotalGoals == {NumPred(150), NumPred(250), NumPred(350)}

\* the raw prediction, the first reconciliation with the historical
\* probabilities, and the class probabilities of the model
Infer ==
    /\ pc = "features" /\ input_data = "ok"
    /\ \/ /\ ~is_regressor
          /\ \E cls \in ClassLists, proba \in Probas \cup {NoProba},
                predict_raises \in BOOLEAN :
                /\ \/ /\ ~predict_raises
                      /\ a_pred' \in PredictLabels(cls)
                   \/ /\ predict_raises
                      /\ a_pred' = IF proba # NoProba
                                   THEN NumPred(100 * ArgMaxIndex(proba))
                                   ELSE NumPred(100)
                /\ predict_raised' = predict_raises
                /\ classes' = cls
                /\ full_conf' = predict_with_confidence(cls, proba)
          /\ final' = determine_final_prediction(a_pred', a_probs)
          /\ prob_dict' = EmptyPD
       \/ /\ is_regressor
          /\ a_pred' \in TotalGoals
          /\ predict_raised' = FALSE
          /\ classes' = <<>>
          /\ prob_dict' = HistPD(a_probs)
          /\ full_conf' = <<>>
          /\ UNCHANGED final
    /\ pc' = "inferred"
    /\ UNCHANGED <<vars_dfp, vars_hist, data_file>>
    /\ UNCHANGED <<home_cat, away_cat, home_form, away_form, data_empty,
                   model_type, is_regressor, input_data, a_probs, result>>

\* str(class_val).upper()
ClassStr(c) ==
    IF c.kind = "str" THEN c.s
    ELSE IF c.v = 0 THEN "0" ELSE IF c.v = 100 THEN "1"
    ELSE IF c.v = 200 THEN "2" ELSE IF c.v = 300 THEN "3" ELSE "?"

\* the slot class_to_our_format gives the class at position i, -1 for none
class_to_our_format(cls, i) ==
    LET c == cls[i]
        str == ClassStr(c)
    IN IF str \in {"0", "A", "AWAY", "AWAY TEAM WIN"} THEN 0
       ELSE IF str \in {"1", "D", "DRAW"} THEN 1
       ELSE IF str \in {"2", "H", "HOME", "HOME TEAM WIN"} THEN 2
       ELSE IF str \in {"3"} THEN 2
       ELSE IF Len(cls) = 3 THEN i - 1
       ELSE -1

\* the slot the mapping loop writes the item of class c to, -1 for none
SlotOf(cls, c) ==
    IF cls = <<NumPred(0), NumPred(100), NumPred(200)>>
    THEN c.v \div 100
    ELSE IF \E i \in DOMAIN cls : cls[i] = c /\ class_to_our_format(cls, i) # -1
         THEN class_to_our_format(cls, CHOOSE i \in DOMAIN cls : cls[i] = c)
         ELSE IF c.kind = "num" /\ c.v \in {0, 100, 200} THEN c.v \div 100
         ELSE IF ClassStr(c) \in {"A", "AWAY", "AWAY TEAM WIN"} THEN 0
         ELSE IF ClassStr(c) \in {"D", "DRAW"} THEN 1
         ELSE IF ClassStr(c) \in {"H", "HOME", "HOME TEAM WIN"} THEN 2
         ELSE -1

\* for key, value in full_conf.items(): prob_dict[slot] = float(value)
RECURSIVE MapItems(_, _, _)
MapItems(cls, fc, n) ==
    IF n = 0 THEN EmptyPD
    ELSE LET pd == MapItems(cls, fc, n - 1)
             slot == SlotOf(cls, fc[n][1])
         IN IF slot = -1 THEN pd ELSE PDSet(pd, slot, fc[n][2])

\* the model's probabilities in the slots 0=Away, 1=Draw, 2=Home
MapProbabilities ==
    /\ pc = "inferred"
    /\ ~(~is_regressor /\ classes # <<>> /\ full_conf = <<>>)
    /\ LET mapped == IF is_regressor THEN prob_dict
                     ELSE IF classes # <<>>
                          THEN MapItems(classes, full_conf, Len(full_conf))
                          ELSE EmptyPD
       IN prob_dict' = IF mapped = EmptyPD THEN HistPD(a_probs) ELSE mapped
    /\ pc' = "mapped"
    /\ UNCHANGED <<vars_dfp, vars_hist, predict_raised, data_file>>
    /\ UNCHANGED <<home_cat, away_cat, home_form, away_form, data_empty,
                   model_type, is_regressor, input_data, a_probs, a_pred,
                   classes, full_conf, final, result>>

\* full_conf is None and the loop over its items raises: no prediction
MappingRaises ==
    /\ pc = "inferred"
    /\ ~is_regressor /\ classes # <<>> /\ full_conf = <<>>
    /\ result' = NoResult
    /\ pc' = "done"
    /\ UNCHANGED <<vars_dfp, vars_hist, predict_raised, data_file>>
    /\ UNCHANGED <<home_cat, away_cat, home_form, away_form, data_empty,
                   model_type, is_regressor, input_data, a_probs, a_pred,
                   classes, full_conf, final, prob_dict>>

IdleOut == [ret |-> "", branch |-> "idle"]

\* for key in prob_dict: a value above 1.0 is taken for a percentage
PDPercentToDecimal(pd) ==
    [i \in DOMAIN pd |-> IF pd[i][2] > 1000 THEN <<pd[i][1], FDiv(pd[i][2], 100)>>
                         ELSE pd[i]]

\* the normalisation as a function of the mapped prob_dict
NormalizeSteps(pd) ==
    LET total == PDSum(pd)
        n1 == IF total > 0 THEN PDNormalize(pd, total) ELSE UniformPD
        n2 == PDPercentToDecimal(n1)
        total2 == PDSum(n2)
        n3 == IF total2 > 0 /\ Abs(total2 - 1000) > 10
              THEN PDNormalize(n2, total2) ELSE n2
    IN IF Abs(PDSum(n3) - 1000) > 50 THEN UniformPD ELSE n3

Normalize ==
    /\ pc = "mapped"
    /\ prob_dict' = NormalizeSteps(prob_dict)
    /\ pc' = "normalized"
    /\ UNCHANGED <<vars_dfp, vars_hist, predict_raised, data_file>>
    /\ UNCHANGED <<home_cat, away_cat, home_form, away_form, data_empty,
                   model_type, is_regressor, input_data, a_probs, a_pred,
                   classes, full_conf, final, result>>

\* the form-based probabilities <<away, draw, home>> for form_diff, <<>> for none
FormProbs(form_diff) ==
    IF ~(Abs(form_diff) > 210) THEN <<>>
    ELSE IF form_diff < -252 THEN <<480, 300, 220>>
    ELSE IF form_diff < -168 THEN <<420, 320, 260>>
    ELSE IF form_diff > 252 THEN <<220, 300, 480>>
    ELSE IF form_diff > 168 THEN <<260, 320, 420>>
    ELSE <<>>

\* 60% model, 40% form, then renormalised
Blend(pd, form) ==
    LET b0 == PDSet(pd, 0, FDiv(PDGet(pd, 0, 330) * 600 + form[1] * 400, 1000))
        b1 == PDSet(b0, 1, FDiv(PDGet(pd, 1, 330) * 600 + form[2] * 400, 1000))
        b2 == PDSet(b1, 2, FDiv(PDGet(pd, 2, 330) * 600 + form[3] * 400, 1000))
        total == PDSum(b2)
    IN IF total > 0 THEN PDNormalize(b2, total) ELSE b2

\* the correction of the probabilities by the two teams' recent form
FormCorrection ==
    /\ pc = "normalized"
    /\ \E hf \in HomeForms, af \in AwayForms :
          /\ ReadForms(hf, af)
          /\ home_form' = hf /\ away_form' = af
          /\ LET form == FormProbs(strength_diff(hf, af))
             IN prob_dict' = IF form = <<>> THEN prob_dict
                             ELSE Blend(prob_dict, form)
    /\ pc' = "corrected"
    /\ UNCHANGED <<vars_dfp, vars_hist, predict_raised, data_file>>
    /\ UNCHANGED <<home_cat, away_cat, data_empty, model_type, is_regressor,
                   input_data, a_probs, a_pred, classes, full_conf, final,
                   result>>

\* max(hist_probs_list) - min(hist_probs_list) > 10
use_historical(probs) ==
    \E a \in Outcomes, b \in Outcomes : probs[a] - probs[b] > 100

\* the historical percentages as a normalised prob_dict
HistNormalized(probs) ==
    LET h == HistPD(probs)
        total_hist == PDSum(h)
    IN IF total_hist > 0 THEN PDNormalize(h, total_hist) ELSE h

\* the outcome read off the label of determine_final_prediction
OutcomeOfFinal(fin, prediction) ==
    IF fin = HOME_OR_DRAW THEN "Home"
    ELSE IF fin = AWAY_OR_DRAW THEN "Away"
    ELSE IF fin = HOME_OR_AWAY THEN (IF prediction = 0 THEN "Away" ELSE "Home")
    ELSE IF fin = HOME THEN "Home"
    ELSE IF fin = AWAY THEN "Away"
    ELSE IF fin = DRAW THEN "Draw"
    ELSE outcome_map(prediction)

\* the validation before the return
FinalValidation(pd) ==
    LET v == PDPercentToDecimal(pd)
        prob_sum == PDSum(v)
    IN IF Abs(prob_sum - 1000) > 50
       THEN IF prob_sum > 0 THEN PDNormalize(v, prob_sum) ELSE UniformPD
       ELSE v

\* the outcome as the code decides it
DecideOutcome(fin, prediction, pd) ==
    IF PDMaxVal(pd) - PDMinVal(pd) >= 50
    THEN outcome_map(prediction)
    ELSE OutcomeOfFinal(fin, prediction)

\* prediction, outcome and the returned result
Finalize ==
    /\ pc = "corrected"
    /\ IF use_historical(a_probs)
       THEN LET pd == HistNormalized(a_probs)
                prediction == PDArgMax(pd)
                outcome == outcome_map(prediction)
            IN /\ final' = outcome
               /\ prob_dict' = FinalValidation(pd)
               /\ result' = Result(prediction, outcome, FinalValidation(pd),
                                   PDGet(pd, prediction, 0), model_type, outcome,
                                   a_probs)
       ELSE LET prediction == PDArgMax(prob_dict)
                fin == determine_final_prediction(a_pred, a_probs)
                outcome == DecideOutcome(fin, prediction, prob_dict)
            IN /\ final' = fin
               /\ prob_dict' = FinalValidation(prob_dict)
               /\ result' = Result(prediction, outcome, FinalValidation(prob_dict),
                                   PDGet(prob_dict, prediction, 0), model_type,
                                   fin, a_probs)
    /\ pc' = "done"
    /\ UNCHANGED <<vars_dfp, vars_hist, predict_raised, data_file>>
    /\ UNCHANGED <<home_cat, away_cat, home_form, away_form, data_empty,
                   model_type, is_regressor, input_data, a_probs, a_pred,
                   classes, full_conf>>

\* no direct call of calculate_probabilities_original is under way
NoTable == [data_empty |-> FALSE, schema |-> "v1", rows |-> <<>>,
            hf |-> NoForm, af |-> NoForm]
NoFormCall == [team |-> <<>>, data |-> "none", rows |-> <<>>]
IdleForm == f_in = NoFormCall /\ f_out = NoForm
Idle_str == f_strength = [side |-> "none", form_strength |-> -1, v |-> -1]
Idle_load == l_files = <<>> /\ l_mem = <<>> /\ l_redis = <<>> /\ l_calls = <<>> /\ l_changed = FALSE
Idle_cat == c_cache = [published |-> FALSE, main_teams |-> {}, other_teams |-> {}] /\ c_thr = <<>>
Idle_rate == r_count = 0 /\ r_ttl = 0 /\ r_thr = <<>> /\ r_admitted = 0 /\ r_rejected = 0 /\ r_sent = 0 /\ r_polite = TRUE /\ r_started = 0
Idle_pred == p_db = {} /\ p_next = 0 /\ p_last = [person |-> 0, mode |-> "", deleted |-> {}]
Idle_api == a_result = [probabilities |-> EmptyPD, historical_probs |-> NoProbs] /\ a_prod = [Home |-> -1, Draw |-> -1, Away |-> -1] /\ a_dev = [Home |-> -1, Draw |-> -1, Away |-> -1]
Idle_enc == e_cache = [set |-> FALSE, hash |-> <<0, "">>, teams |-> {}] /\ e_calls = 0 /\ e_last = [data |-> [rows |-> <<>>, columns |-> ""], all_teams |-> {}]
Idle_sd == s_match = [home |-> "", away |-> ""] /\ s_tables = <<>> /\ s_required = 0 /\ s_strengths = [dataset |-> 0, home_strength |-> -1, away_strength |-> -1]
IdleOther_str == Idle_load /\ Idle_cat /\ Idle_rate /\ Idle_pred /\ Idle_api /\ Idle_enc /\ Idle_sd
IdleOther_load == Idle_str /\ Idle_cat /\ Idle_rate /\ Idle_pred /\ Idle_api /\ Idle_enc /\ Idle_sd
IdleOther_cat == Idle_str /\ Idle_load /\ Idle_rate /\ Idle_pred /\ Idle_api /\ Idle_enc /\ Idle_sd
IdleOther_rate == Idle_str /\ Idle_load /\ Idle_cat /\ Idle_pred /\ Idle_api /\ Idle_enc /\ Idle_sd
IdleOther_pred == Idle_str /\ Idle_load /\ Idle_cat /\ Idle_rate /\ Idle_api /\ Idle_enc /\ Idle_sd
IdleOther_api == Idle_str /\ Idle_load /\ Idle_cat /\ Idle_rate /\ Idle_pred /\ Idle_enc /\ Idle_sd
IdleOther_enc == Idle_str /\ Idle_load /\ Idle_cat /\ Idle_rate /\ Idle_pred /\ Idle_api /\ Idle_sd
IdleOther_sd == Idle_str /\ Idle_load /\ Idle_cat /\ Idle_rate /\ Idle_pred /\ Idle_api /\ Idle_enc
IdleAux == Idle_str /\ Idle_load /\ Idle_cat /\ Idle_rate /\ Idle_pred /\ Idle_api /\ Idle_enc /\ Idle_sd
IdleHist == h_in = NoTable /\ h_out = NoProbs /\ IdleForm /\ IdleAux

IdleDFP == d_pred = NumPred(0) /\ d_probs = NoProbs /\ d_out = IdleOut

Init == InitAPM /\ IdleDFP /\ IdleHist

Next ==
    \/ Route \/ Load \/ EmptyDataFallback \/ SelectModel \/ Model2Fallback
    \/ MixedTeams \/ ModelMissing \/ BuildFeatures \/ NoFeaturesFallback
    \/ Infer \/ MapProbabilities \/ MappingRaises \/ Normalize
    \/ FormCorrection \/ Finalize

Spec == Init /\ [][Next]_vars

InitDFP ==
    /\ d_pred \in RawPreds
    /\ d_probs \in HistInputs
    /\ d_out = IdleOut
    /\ InitAPM
    /\ IdleHist

CallDFP ==
    /\ d_out = IdleOut
    /\ d_out' = DFP(d_pred, d_probs)
    /\ UNCHANGED <<d_pred, d_probs>>
    /\ UNCHANGED <<vars_apm, vars_hist>>

NextDFP == CallDFP

SpecDFP == InitDFP /\ [][NextDFP]_vars

----------------------------------------------------------------------------
(* calculate_probabilities_original over the rows of a table *)

\* most rows of the two teams in one table
MaxTableRows == 3

\* a cell of the result column: a letter, an integer or float code, or blank
ResultCodes ==
    {StrPred("H"), StrPred("D"), StrPred("A"),
     NumPred(0), NumPred(100), NumPred(200), NumPred(300), NanPred}

\* a row of the two teams: "fwd" has home at home, "rev" is the reverse fixture
TableRows == [dir : {"fwd", "rev"}, res : ResultCodes]

RowSeqs == UNION {[1..n -> TableRows] : n \in 0..MaxTableRows}

h2h_home(rows) == LET IsFwd(r) == r.dir = "fwd" IN SelectSeq(rows, IsFwd)
h2h_away(rows) == LET IsRev(r) == r.dir = "rev" IN SelectSeq(rows, IsRev)

\* pd.concat([h2h_home, h2h_away])
h2h(rows) == h2h_home(rows) \o h2h_away(rows)

\* isinstance(sample_value, (int, float, np.integer, np.floating)) of the
\* first row of h2h; a blank cell is the float NaN
is_numeric(rows) == h2h(rows)[1].res.kind \in {"num", "nan"}

\* (column == code).sum()
CountEq(rows, code) ==
    LET Is(r) == r.res = code IN Len(SelectSeq(rows, Is))

\* the reverse fixtures counted without turning the result round
away_counts_unflipped(rows, numeric) ==
    IF numeric
    THEN [home_wins |-> CountEq(h2h_away(rows), NumPred(200)),
          draws |-> CountEq(h2h_away(rows), NumPred(100)),
          away_wins |-> CountEq(h2h_away(rows), NumPred(0))]
    ELSE [home_wins |-> CountEq(h2h_away(rows), StrPred("H")),
          draws |-> CountEq(h2h_away(rows), StrPred("D")),
          away_wins |-> CountEq(h2h_away(rows), StrPred("A"))]

\* the counts of the rows with home at home
home_counts(rows, numeric) ==
    IF numeric
    THEN [home_wins |-> CountEq(h2h_home(rows), NumPred(200)),
          draws |-> CountEq(h2h_home(rows), NumPred(100)),
          away_wins |-> CountEq(h2h_home(rows), NumPred(0))]
    ELSE [home_wins |-> CountEq(h2h_home(rows), StrPred("H")),
          draws |-> CountEq(h2h_home(rows), StrPred("D")),
          away_wins |-> CountEq(h2h_home(rows), StrPred("A"))]

\* the counts of the reverse fixtures: the row's home win is our away win
away_counts(rows, numeric) ==
    IF numeric
    THEN [home_wins |-> CountEq(h2h_away(rows), NumPred(0)),
          draws |-> CountEq(h2h_away(rows), NumPred(100)),
          away_wins |-> CountEq(h2h_away(rows), NumPred(200))]
    ELSE [home_wins |-> CountEq(h2h_away(rows), StrPred("A")),
          draws |-> CountEq(h2h_away(rows), StrPred("D")),
          away_wins |-> CountEq(h2h_away(rows), StrPred("H"))]

\* calculate_probabilities_original(home, away, data, "v1") for a table t
calculate_probabilities_table(t) ==
    LET d == strength_diff(t.hf, t.af) IN
    IF t.data_empty \/ t.schema # "v1" THEN StrengthTable1(d)
    ELSE IF h2h(t.rows) = <<>> THEN StrengthTable2(d)
    ELSE LET hc == home_counts(t.rows, is_numeric(t.rows))
             ac == away_counts(t.rows, is_numeric(t.rows))
         IN TallyPct(hc.home_wins + ac.home_wins, hc.draws + ac.draws,
                     hc.away_wins + ac.away_wins, Len(h2h(t.rows)))

\* the tables of a direct call: tables with rows of the two teams, and tables
\* without, where the teams' forms decide
DefaultHomeForm == CHOOSE f \in HomeForms : TRUE
DefaultAwayForm == CHOOSE f \in AwayForms : TRUE

CPOInputs ==
    {[data_empty |-> FALSE, schema |-> "v1", rows |-> r,
      hf |-> DefaultHomeForm, af |-> DefaultAwayForm] : r \in RowSeqs \ {<<>>}}
    \cup
    {[data_empty |-> e, schema |-> s, rows |-> <<>>, hf |-> hf, af |-> af] :
        e \in BOOLEAN, s \in {"v1", "v2"}, hf \in HomeForms, af \in AwayForms}

InitCPO ==
    /\ h_in \in CPOInputs
    /\ h_out = NoProbs
    /\ IdleForm /\ IdleAux
    /\ InitAPM
    /\ IdleDFP

CallCPO ==
    /\ h_out = NoProbs
    /\ h_out' = calculate_probabilities_table(h_in)
    /\ UNCHANGED <<h_in, f_in, f_out, vars_apm, vars_dfp, vars_aux>>

NextCPO == CallCPO

SpecCPO == InitCPO /\ [][NextCPO]_vars

----------------------------------------------------------------------------
(* get_team_recent_form_original; a name is the sequence of its characters *)

\* most rows of a table handed to the form calculator
MaxFormRows == 2

UpperCase == <<"A","B","C","D","E","F","G","H","I","J","K","L","M",
               "N","O","P","Q","R","S","T","U","V","W","X","Y","Z">>
LowerCase == <<"a","b","c","d","e","f","g","h","i","j","k","l","m",
               "n","o","p","q","r","s","t","u","v","w","x","y","z">>

\* the characters in the order sorted() compares them
CharOrder == <<" ">> \o UpperCase \o LowerCase

CharRank(c) == CHOOSE i \in 1..Len(CharOrder) : CharOrder[i] = c

lower_char(c) ==
    IF \E i \in 1..26 : UpperCase[i] = c
    THEN LowerCase[CHOOSE i \in 1..26 : UpperCase[i] = c]
    ELSE c

\* str.lower()
lower(s) == [i \in 1..Len(s) |-> lower_char(s[i])]

RECURSIVE lstrip(_)
lstrip(s) == IF s # <<>> /\ s[1] = " " THEN lstrip(Tail(s)) ELSE s

RECURSIVE rstrip(_)
rstrip(s) ==
    IF s # <<>> /\ s[Len(s)] = " " THEN rstrip(SubSeq(s, 1, Len(s) - 1)) ELSE s

\* str.strip()
strip(s) == rstrip(lstrip(s))

\* str.startswith(p)
startswith(s, p) == Len(p) <= Len(s) /\ SubSeq(s, 1, Len(p)) = p

\* p in s
contains(s, p) ==
    \E i \in 0..(Len(s) - Len(p)) : SubSeq(s, i + 1, i + Len(p)) = p

\* str.replace(p, "")
RECURSIVE remove(_, _)
remove(s, p) ==
    IF Len(s) < Len(p) \/ p = <<>> THEN s
    ELSE IF startswith(s, p) THEN remove(SubSeq(s, Len(p) + 1, Len(s)), p)
    ELSE <<s[1]>> \o remove(Tail(s), p)

\* s < t as sorted() orders two strings
RECURSIVE StrLess(_, _)
StrLess(s, t) ==
    IF t = <<>> THEN FALSE
    ELSE IF s = <<>> THEN TRUE
    ELSE IF s[1] # t[1] THEN CharRank(s[1]) < CharRank(t[1])
    ELSE StrLess(Tail(s), Tail(t))

Ars == <<"A","r","s">>
ArsSpaced == <<"A","r","s"," ">>
ArsUpper == <<"A","R","S">>
Che == <<"C","h","e">>
FCArs == <<"F","C"," ","A","r","s">>
Grasshoppers == <<"G","r","a","s","s","h","o","p","p","e","r","s">>
Lausanne == <<"L","a","u","s","a","n","n","e">>

MANUAL_FORM_LOOKUP ==
    (Grasshoppers :> <<"W","L","D","W","L">>)
    @@ (Lausanne :> <<"L","L","W","W","W">>)

\* the team names asked for
FormTeams == {Ars, FCArs, Grasshoppers, Lausanne}

\* the hash-derived form of a name: for i in 0..4 the value
\* (int(md5(name)[:8], 16) + i * 7919) % 100 picks W below 40, D below 70,
\* else L
hash_form(name) ==
    CASE name = Ars -> <<"L","W","W","D","L">>
      [] name = FCArs -> <<"W","D","D","L","W">>
      [] name = Grasshoppers -> <<"W","W","D","L","L">>
      [] name = Lausanne -> <<"W","W","D","D","L">>

\* the ways the club's name is written in a cell of the table
ClubCells == {Ars, ArsSpaced, ArsUpper}

\* a row: the club at home or away against the other side, the result letter
\* and the rank of its date; one more row has a date that does not parse
\* (rank 0)
FormRowsAt(i) ==
    {[home |-> c, away |-> Che, res |-> r, date |-> i] :
        c \in ClubCells, r \in {"H", "D", "A"}}
    \cup
    {[home |-> Che, away |-> c, res |-> r, date |-> i] :
        c \in ClubCells, r \in {"H", "D", "A"}}
    \cup
    {[home |-> Ars, away |-> Che, res |-> "H", date |-> 0]}

RECURSIVE TablesOf(_)
TablesOf(n) ==
    IF n = 0 THEN {<<>>}
    ELSE {Append(t, r) : t \in TablesOf(n - 1), r \in FormRowsAt(n)}

FormTables == UNION {TablesOf(n) : n \in 0..MaxFormRows}

\* team_variations: the name, its lower case, and the name without "FC",
\* " FC" and "Club"
team_variations(clean) ==
    LET fc == <<"F","C"," ">>
        sfc == <<" ","F","C">>
        club == <<"C","l","u","b">>
        clubsp == <<"C","l","u","b"," ">>
        v1 == IF startswith(clean, fc)
              THEN LET t == strip(SubSeq(clean, 4, Len(clean)))
                   IN <<t, lower(t)>>
              ELSE <<>>
        v2 == IF contains(clean, sfc)
              THEN LET t == strip(remove(clean, sfc)) IN <<t, lower(t)>>
              ELSE <<>>
        v3 == IF contains(clean, club)
              THEN LET t == strip(remove(remove(clean, clubsp), club))
                   IN <<t, lower(t)>>
              ELSE <<>>
    IN <<clean, lower(clean)>> \o v1 \o v2 \o v3

\* df after the rows whose date does not parse are dropped
parsed(rows) == LET HasDate(r) == r.date # 0 IN SelectSeq(rows, HasDate)

\* the rows of the exact match after stripping the cells
exact_matches(df, clean) ==
    LET Hit(r) == strip(r.home) = clean \/ strip(r.away) = clean
    IN SelectSeq(df, Hit)

\* the rows whose cell equals a name as written
cell_matches(df, name) ==
    LET Hit(r) == r.home = name \/ r.away = name IN SelectSeq(df, Hit)

\* the loop over team_variations[1:]: the first variation longer than two
\* characters that finds rows
RECURSIVE variation_matches(_, _, _)
variation_matches(df, vs, i) ==
    IF i > Len(vs) THEN <<>>
    ELSE IF Len(vs[i]) > 2 /\ cell_matches(df, vs[i]) # <<>>
         THEN cell_matches(df, vs[i])
         ELSE variation_matches(df, vs, i + 1)

\* the case-insensitive match
lower_matches(df, name_lower) ==
    LET Hit(r) == lower(strip(r.home)) = name_lower
                  \/ lower(strip(r.away)) = name_lower
    IN SelectSeq(df, Hit)

\* the partial match: the name inside the cell
partial_matches(df, team_lower) ==
    LET Hit(r) == contains(lower(r.home), team_lower)
                  \/ contains(lower(r.away), team_lower)
    IN SelectSeq(df, Hit)

\* sorted(set(home cells) | set(away cells)) filtered to the similar names;
\* the first of them
all_teams(df) == {df[i].home : i \in 1..Len(df)} \cup {df[i].away : i \in 1..Len(df)}

similar_teams(df, team_lower) ==
    {t \in all_teams(df) :
        contains(lower(t), team_lower) \/ contains(team_lower, lower(t))}

first_similar(df, team_lower) ==
    CHOOSE t \in similar_teams(df, team_lower) :
        \A u \in similar_teams(df, team_lower) : u = t \/ StrLess(t, u)

similar_matches(df, team_lower) ==
    IF similar_teams(df, team_lower) = {} THEN <<>>
    ELSE LET sim == first_similar(df, team_lower) IN
         IF cell_matches(df, sim) # <<>> THEN cell_matches(df, sim)
         ELSE lower_matches(df, lower(sim))

\* recent_matches after every tier of the name matching
recent_matches(df, clean) ==
    LET m1 == exact_matches(df, clean)
        m2 == IF m1 # <<>> THEN m1
              ELSE variation_matches(df, team_variations(clean), 2)
        m3 == IF m2 # <<>> THEN m2 ELSE lower_matches(df, lower(clean))
        m4 == IF m3 # <<>> THEN m3 ELSE partial_matches(df, lower(clean))
    IN IF m4 # <<>> THEN m4 ELSE similar_matches(df, lower(clean))

\* sort_values("Date", ascending=False)
RECURSIVE sort_by_date_desc(_)
sort_by_date_desc(rows) ==
    IF rows = <<>> THEN <<>>
    ELSE LET k == CHOOSE i \in 1..Len(rows) :
                    \A j \in 1..Len(rows) :
                        rows[j].date < rows[i].date
                        \/ (rows[j].date = rows[i].date /\ i <= j)
             rest == [j \in 1..(Len(rows) - 1) |->
                        IF j < k THEN rows[j] ELSE rows[j + 1]]
         IN <<rows[k]>> \o sort_by_date_desc(rest)

\* head(5)
head5(rows) == SubSeq(rows, 1, IF Len(rows) < 5 THEN Len(rows) ELSE 5)

\* the letter of one retained row
form_letter(row, clean) ==
    LET is_home == row.home = clean IN
    IF row.res = "D" THEN "D"
    ELSE IF (row.res = "H" /\ is_home) \/ (row.res = "A" /\ ~is_home) THEN "W"
    ELSE "L"

\* the form left at its own length
pad5_unpadded(form) == form

\* pad with D up to five letters
pad5(form) ==
    [i \in 1..5 |-> IF i <= Len(form) THEN form[i] ELSE "D"]

\* get_team_recent_form_original(team_name, data, "v1")
get_team_recent_form_original(c) ==
    LET clean == strip(c.team) IN
    IF c.data = "raises" THEN <<"D", "D", "D", "D", "D">>
    ELSE IF c.data = "sentinel" \/ c.data = "missing_cols" THEN hash_form(clean)
    ELSE LET m == recent_matches(parsed(c.rows), clean) IN
         IF m = <<>> THEN hash_form(clean)
         ELSE LET rows5 == head5(sort_by_date_desc(m))
              IN pad5([i \in 1..Len(rows5) |-> form_letter(rows5[i], clean)])

\* the calls: a table with rows of the club, asked for under the club's
\* names; a table the other names are absent from; and the tables without
\* usable content: the empty-table object, one missing a required column,
\* one on which the calculation raises
FormCalls ==
    {[team |-> t, data |-> "table", rows |-> r] :
        t \in {Ars, FCArs}, r \in FormTables}
    \cup
    {[team |-> t, data |-> "table", rows |-> r] :
        t \in {Grasshoppers, Lausanne}, r \in TablesOf(0) \cup TablesOf(1)}
    \cup
    {[team |-> t, data |-> d, rows |-> <<>>] :
        t \in FormTeams, d \in {"sentinel", "missing_cols", "raises"}}

InitForm ==
    /\ f_in \in FormCalls
    /\ f_out = NoForm
    /\ h_in = NoTable /\ h_out = NoProbs /\ IdleAux
    /\ InitAPM
    /\ IdleDFP

CallForm ==
    /\ f_out = NoForm
    /\ f_strength.side = "none"
    /\ f_out' = get_team_recent_form_original(f_in)
    /\ UNCHANGED <<f_in, h_in, h_out, vars_apm, vars_dfp, vars_aux>>

\* calculate_team_strength(team_name, home_away) as a direct call: the form
\* it obtains from the form calculator (the hash-derived one when the table is
\* empty), the local form_strength and the returned value
CallStrength ==
    /\ f_strength.side = "none"
    /\ f_out = NoForm
    /\ \E home_away \in {"home", "away"} :
        LET form_string == get_team_recent_form_original(f_in) IN
        f_strength' = [side |-> home_away,
                       form_strength |-> form_strength(form_string),
                       v |-> calculate_team_strength(form_string, home_away)]
    /\ UNCHANGED <<f_out, other_str>>

NextForm == CallForm \/ CallStrength

SpecForm == InitForm /\ [][NextForm]_vars

----------------------------------------------------------------------------
(* load_football_data and its two caches *)

\* most calls of load_football_data in one run
MaxLoads == 2

\* what a call returns: a parsed table with its row count and its version
\* attribute ("" when neither column set is present), the empty DataFrame of
\* a missing file, or the EmptyDataFrame object of the except branches
LoadedTable(tag, rows) == [kind |-> "table", tag |-> tag, rows |-> rows]
EmptyFrame == [kind |-> "empty", tag |-> "", rows |-> 0]
EmptyDataFrame == [kind |-> "sentinel", tag |-> "", rows |-> 0]

\* a file on disk: absent, present but unreadable by read_csv, or a CSV with
\* its column set and row count
MissingFile == [state |-> "missing", cols |-> "", rows |-> 0]
UnreadableFile == [state |-> "unreadable", cols |-> "", rows |-> 0]
CsvFile(cols, rows) == [state |-> "csv", cols |-> cols, rows |-> rows]

FileKinds ==
    {MissingFile, UnreadableFile, CsvFile("v1", 1), CsvFile("v1", 2),
     CsvFile("v2", 1)}

\* the three paths: data/football_data1.csv, data/football_data2.csv and
\* lGIC/football_data2.csv
FilePaths == {"data1", "data2", "lgic2"}

NotCached == [kind |-> "none", tag |-> "", rows |-> 0]

\* the path dataset 2 is read from
dataset2_path(files) ==
    IF files["data2"].state = "missing"
    THEN IF files["lgic2"].state # "missing" THEN "lgic2" ELSE "data2"
    ELSE IF files["data2"].state = "unreadable"
         THEN IF files["lgic2"].state # "missing" THEN "lgic2" ELSE "data2"
    ELSE IF files["data2"].cols = "v1" THEN "data2"
    ELSE IF files["lgic2"].state # "missing" THEN "lgic2"
    ELSE "data2"

data_path(files, dataset) ==
    IF dataset = 2 THEN dataset2_path(files) ELSE "data1"

\* the version attribute set from the columns
version_of(cols) == IF cols = "v2" THEN "v2" ELSE IF cols = "v1" THEN "v1" ELSE ""

\* the table read from a path: every read_csv attempt fails on an unreadable
\* file and the outer except returns the EmptyDataFrame object
read_path(files, path) ==
    IF files[path].state = "missing" THEN EmptyFrame
    ELSE IF files[path].state = "unreadable" THEN EmptyDataFrame
    ELSE LoadedTable(version_of(files[path].cols), files[path].rows)

Datasets == {1, 2}

InitLoad ==
    /\ l_files \in [FilePaths -> FileKinds]
    /\ l_mem = [d \in Datasets |-> NotCached]
    /\ l_redis \in {[up |-> u, data |-> [d \in Datasets |-> NotCached]] :
                        u \in BOOLEAN}
    /\ l_calls = <<>>
    /\ l_changed = FALSE
    /\ IdleForm /\ IdleOther_load
    /\ h_in = NoTable /\ h_out = NoProbs
    /\ InitAPM
    /\ IdleDFP

\* the in-memory cache left as it was
store_nothing(mem, dataset, data) == mem

\* _data_cache[cache_key] = data
store_in_memory(mem, dataset, data) == [mem EXCEPT ![dataset] = data]

\* load_football_data(dataset) with use_cache=True
LoadCall ==
    /\ Len(l_calls) < MaxLoads
    /\ \E dataset \in Datasets :
        IF l_mem[dataset] # NotCached
        THEN /\ l_calls' = Append(l_calls,
                    [dataset |-> dataset, ret |-> l_mem[dataset], from |-> "memory"])
             /\ UNCHANGED <<l_mem, l_redis>>
        ELSE IF l_redis.up /\ l_redis.data[dataset] # NotCached
        THEN /\ l_mem' = store_in_memory(l_mem, dataset, l_redis.data[dataset])
             /\ l_calls' = Append(l_calls,
                    [dataset |-> dataset, ret |-> l_redis.data[dataset],
                     from |-> "redis"])
             /\ UNCHANGED l_redis
        ELSE LET data == read_path(l_files, data_path(l_files, dataset)) IN
             /\ l_calls' = Append(l_calls,
                    [dataset |-> dataset, ret |-> data, from |-> "file"])
             /\ IF data.kind = "table"
                THEN /\ l_mem' = store_in_memory(l_mem, dataset, data)
                     /\ l_redis' = IF l_redis.up
                                   THEN [l_redis EXCEPT !.data[dataset] = data]
                                   ELSE l_redis
                ELSE UNCHANGED <<l_mem, l_redis>>
    /\ UNCHANGED <<l_files, l_changed, other_load>>

\* the environment replaces one file on disk between two calls
ReplaceFile ==
    /\ ~l_changed
    /\ Len(l_calls) = 1
    /\ \E p \in FilePaths, k \in FileKinds :
        /\ k # l_files[p]
        /\ l_files' = [l_files EXCEPT ![p] = k]
    /\ l_changed' = TRUE
    /\ UNCHANGED <<l_mem, l_redis, l_calls, other_load>>

\* another process stores its table in the shared cache between two calls
SharedCacheFilled ==
    /\ ~l_changed
    /\ Len(l_calls) = 1
    /\ l_redis.up
    /\ \E d \in Datasets :
        /\ l_redis.data[d] = NotCached
        /\ l_redis' = [l_redis EXCEPT !.data[d] = LoadedTable("v1", 2)]
    /\ l_changed' = TRUE
    /\ UNCHANGED <<l_files, l_mem, l_calls, other_load>>

NextLoad == LoadCall \/ ReplaceFile \/ SharedCacheFilled

SpecLoad == InitLoad /\ [][NextLoad]_vars

----------------------------------------------------------------------------
(* The lazily built team-category index of advanced_predict_match *)

\* the threads that enter advanced_predict_match concurrently
MaxThreads == 2

Threads == 1..MaxThreads

\* LEAGUES_BY_CATEGORY flattened to the order the nested loops visit it
LEAGUES_BY_CATEGORY ==
    <<[category |-> "European Leagues", teams |-> {"Arsenal", "Chelsea"}],
      [category |-> "European Leagues", teams |-> {"Inter"}],
      [category |-> "Others", teams |-> {"Basel", "Lugano"}]>>

\* the (home_team, away_team) pairs of the requests
RequestPairs ==
    {<<"Arsenal", "Inter">>, <<"Basel", "Lugano">>, <<"Basel", "Arsenal">>}

\* the loop over the leagues left after one league only
loop_over_early(i) == i > 1

\* the loop over the leagues has visited every league
loop_over(i) == i > Len(LEAGUES_BY_CATEGORY)

\* required_dataset from the two sets
required_dataset(home, away, main_teams, other_teams) ==
    IF home \in main_teams /\ away \in main_teams THEN 1
    ELSE IF home \in other_teams /\ away \in other_teams THEN 2
    ELSE 1

\* _team_categories_cache = None
NoIndex == [published |-> FALSE, main_teams |-> {}, other_teams |-> {}]

InitCat ==
    /\ c_cache = NoIndex
    /\ c_thr \in [Threads -> {[pc |-> "start", home |-> r[1], away |-> r[2],
                               main_teams |-> {}, other_teams |-> {}, i |-> 0,
                               built |-> FALSE, dataset |-> 0] :
                                    r \in RequestPairs}]
    /\ IdleForm /\ IdleOther_cat
    /\ h_in = NoTable /\ h_out = NoProbs
    /\ InitAPM
    /\ IdleDFP

\* if _team_categories_cache is None
CheckCache(t) ==
    /\ c_thr[t].pc = "start"
    /\ IF c_cache = NoIndex
       THEN c_thr' = [c_thr EXCEPT ![t].pc = "build", ![t].i = 1,
                                    ![t].built = TRUE]
       ELSE c_thr' = [c_thr EXCEPT ![t].pc = "read_main"]
    /\ UNCHANGED <<c_cache, other_cat>>

\* one league of the nested loops, into the thread's own sets
BuildStep(t) ==
    /\ c_thr[t].pc = "build"
    /\ ~loop_over(c_thr[t].i)
    /\ LET item == LEAGUES_BY_CATEGORY[c_thr[t].i] IN
       IF item.category = "European Leagues"
       THEN c_thr' = [c_thr EXCEPT
                ![t].main_teams = c_thr[t].main_teams \cup item.teams,
                ![t].i = c_thr[t].i + 1]
       ELSE c_thr' = [c_thr EXCEPT
                ![t].other_teams = c_thr[t].other_teams \cup item.teams,
                ![t].i = c_thr[t].i + 1]
    /\ UNCHANGED <<c_cache, other_cat>>

\* _team_categories_cache = {'main_teams': main_teams, 'other_teams': other_teams}
Publish(t) ==
    /\ c_thr[t].pc = "build"
    /\ loop_over(c_thr[t].i)
    /\ c_cache' = [published |-> TRUE, main_teams |-> c_thr[t].main_teams,
                   other_teams |-> c_thr[t].other_teams]
    /\ c_thr' = [c_thr EXCEPT ![t].pc = "route"]
    /\ UNCHANGED other_cat

\* main_teams = _team_categories_cache['main_teams']
ReadMain(t) ==
    /\ c_thr[t].pc = "read_main"
    /\ c_thr' = [c_thr EXCEPT ![t].main_teams = c_cache.main_teams,
                                ![t].pc = "read_other"]
    /\ UNCHANGED <<c_cache, other_cat>>

\* other_teams = _team_categories_cache['other_teams']
ReadOther(t) ==
    /\ c_thr[t].pc = "read_other"
    /\ c_thr' = [c_thr EXCEPT ![t].other_teams = c_cache.other_teams,
                                ![t].pc = "route"]
    /\ UNCHANGED <<c_cache, other_cat>>

\* the choice of the dataset from the thread's two sets
RouteStep(t) ==
    /\ c_thr[t].pc = "route"
    /\ c_thr' = [c_thr EXCEPT
            ![t].dataset = required_dataset(c_thr[t].home, c_thr[t].away,
                                c_thr[t].main_teams, c_thr[t].other_teams),
            ![t].pc = "routed"]
    /\ UNCHANGED <<c_cache, other_cat>>

NextCat ==
    \/ \E t \in Threads : CheckCache(t)
    \/ \E t \in Threads : BuildStep(t)
    \/ \E t \in Threads : Publish(t)
    \/ \E t \in Threads : ReadMain(t)
    \/ \E t \in Threads : ReadOther(t)
    \/ \E t \in Threads : RouteStep(t)

SpecCat == InitCat /\ [][NextCat]_vars

----------------------------------------------------------------------------
(* RateLimitMiddleware.process_request, for the requests of one IP *)

RATE_LIMIT_REQUESTS == 100
RATE_LIMIT_WINDOW == 60

\* the seconds between two ticks of the clock
TickSeconds == 30

\* the workers that serve requests concurrently
MaxWorkers == 2

\* the requests begun in one run, after those of the initial state
MaxNewRequests == 3

Workers == 1..MaxWorkers

RequestPaths == {"/predict/", "/admin/login/", "/static/app.css"}

\* request.path.startswith('/admin/') or request.path.startswith('/static/')
skips_rate_limit(path) == path \in {"/admin/login/", "/static/app.css"}

IdleWorker == [pc |-> "idle", requests |-> 0, path |-> ""]

\* cache.get(cache_key, 0): the default once the key has expired
cache_get(count, ttl) == IF ttl > 0 THEN count ELSE 0

\* the counter after n requests served one after the other: in one burst
\* within a tick, or spaced one per tick (each set renews the timeout, so the
\* key is still there a tick later)
InitRate ==
    /\ \E n \in 0..RATE_LIMIT_REQUESTS, spaced \in BOOLEAN :
        /\ r_count = n
        /\ r_ttl = IF n = 0 THEN 0
                   ELSE IF spaced THEN RATE_LIMIT_WINDOW - TickSeconds
                   ELSE RATE_LIMIT_WINDOW
        /\ r_admitted = IF spaced THEN 0 ELSE n
        /\ r_sent = IF spaced THEN 0 ELSE n
        /\ r_polite = (spaced \/ n <= 1)
    /\ r_thr = [w \in Workers |-> IdleWorker]
    /\ r_rejected = 0
    /\ r_started = 0
    /\ IdleForm /\ IdleOther_rate
    /\ h_in = NoTable /\ h_out = NoProbs
    /\ InitAPM
    /\ IdleDFP

\* a request for an admin or static path: returns None at once
SkipRequest(w) ==
    /\ r_thr[w].pc = "idle"
    /\ r_started < MaxNewRequests
    /\ \E path \in RequestPaths : skips_rate_limit(path)
    /\ r_started' = r_started + 1
    /\ UNCHANGED <<r_count, r_ttl, r_thr, r_admitted, r_rejected, r_sent,
                   r_polite, other_rate>>

\* requests = cache.get(cache_key, 0)
GetCount(w) ==
    /\ r_thr[w].pc = "idle"
    /\ r_started < MaxNewRequests
    /\ \E path \in RequestPaths :
        /\ ~skips_rate_limit(path)
        /\ r_thr' = [r_thr EXCEPT ![w] = [pc |-> "got",
                        requests |-> cache_get(r_count, r_ttl), path |-> path]]
    /\ r_started' = r_started + 1
    /\ r_sent' = r_sent + 1
    /\ r_polite' = (r_polite /\ r_sent = 0)
    /\ UNCHANGED <<r_count, r_ttl, r_admitted, r_rejected, other_rate>>

\* if requests >= RATE_LIMIT_REQUESTS: the 429 answer
Reject(w) ==
    /\ r_thr[w].pc = "got"
    /\ r_thr[w].requests >= RATE_LIMIT_REQUESTS
    /\ r_rejected' = r_rejected + 1
    /\ r_thr' = [r_thr EXCEPT ![w] = IdleWorker]
    /\ UNCHANGED <<r_count, r_ttl, r_admitted, r_sent, r_polite, r_started,
                   other_rate>>

\* cache.set(cache_key, requests + 1, RATE_LIMIT_WINDOW); return None
SetCount(w) ==
    /\ r_thr[w].pc = "got"
    /\ r_thr[w].requests < RATE_LIMIT_REQUESTS
    /\ r_count' = r_thr[w].requests + 1
    /\ r_ttl' = RATE_LIMIT_WINDOW
    /\ r_admitted' = r_admitted + 1
    /\ r_thr' = [r_thr EXCEPT ![w] = IdleWorker]
    /\ UNCHANGED <<r_rejected, r_sent, r_polite, r_started, other_rate>>

\* TickSeconds pass; the key is gone once its timeout has run out
Tick ==
    /\ r_ttl' = IF r_ttl > TickSeconds THEN r_ttl - TickSeconds ELSE 0
    /\ r_count' = IF r_ttl > TickSeconds THEN r_count ELSE 0
    /\ r_admitted' = 0
    /\ r_sent' = 0
    /\ UNCHANGED <<r_thr, r_rejected, r_polite, r_started, other_rate>>

NextRate ==
    \/ \E w \in Workers : SkipRequest(w)
    \/ \E w \in Workers : GetCount(w)
    \/ \E w \in Workers : Reject(w)
    \/ \E w \in Workers : SetCount(w)
    \/ Tick

SpecRate == InitRate /\ [][NextRate]_vars

----------------------------------------------------------------------------
(* The Prediction rows saved by predict and deleted by history *)

\* the people using the site
MaxPersons == 2

\* the predictions saved in one run
MaxPredictions == 3

Persons == 1..MaxPersons

\* how a request arrives: logged in as the person's user, anonymous with the
\* person's session cookie, or anonymous without a session
RequestModes == {"user", "session", "nosession"}

\* None in the user and session_key columns
NullKey == 0

\* request.user of the request, NullKey when not authenticated
request_user(person, mode) == IF mode = "user" THEN person ELSE NullKey

\* request.session.session_key: None until the session has been saved
request_session_key(person, mode) ==
    IF mode = "session" THEN person ELSE NullKey

NoDelete == [person |-> 0, mode |-> "", deleted |-> {}]

InitHistory ==
    /\ p_db = {}
    /\ p_next = 1
    /\ p_last = NoDelete
    /\ IdleForm /\ IdleOther_pred
    /\ h_in = NoTable /\ h_out = NoProbs
    /\ InitAPM
    /\ IdleDFP

\* predict: Prediction.objects.create(..., user=request.user if
\* authenticated else None, session_key=session_key)
SavePrediction ==
    /\ p_next <= MaxPredictions
    /\ \E person \in Persons, mode \in RequestModes :
        p_db' = p_db \cup
            {[id |-> p_next,
              user |-> request_user(person, mode),
              session_key |-> IF mode = "user" THEN NullKey
                              ELSE request_session_key(person, mode),
              creator |-> person]}
    /\ p_next' = p_next + 1
    /\ UNCHANGED <<p_last, other_pred>>

\* the rows of filter(id__in=selected_ids, session_key=key): a key of None
\* selects the rows whose session_key is NULL
rows_of_session(db, selected_ids, key) ==
    {p \in db : p.id \in selected_ids /\ p.session_key = key}

\* the rows of filter(id__in=selected_ids, user=request.user)
rows_of_user(db, selected_ids, user) ==
    {p \in db : p.id \in selected_ids /\ p.user = user}

\* history: POST with delete_selected and a non-empty list of ids
DeleteSelected ==
    /\ \E person \in Persons, mode \in RequestModes,
          selected_ids \in (SUBSET (1..MaxPredictions)) \ {{}} :
        LET doomed == IF mode = "user"
                      THEN rows_of_user(p_db, selected_ids,
                                        request_user(person, mode))
                      ELSE rows_of_session(p_db, selected_ids,
                                        request_session_key(person, mode))
        IN /\ p_db' = p_db \ doomed
           /\ p_last' = [person |-> person, mode |-> mode, deleted |-> doomed]
    /\ UNCHANGED <<p_next, other_pred>>

NextHistory == SavePrediction \/ DeleteSelected

SpecHistory == InitHistory /\ [][NextHistory]_vars

----------------------------------------------------------------------------
(* The probabilities of the two FastAPI /predict responses *)

\* the decimal probabilities the engine hands over, in thousandths
ProbGrid == {0, 100, 200, 300, 400, 500, 600, 700, 800, 900, 1000}

\* result['probabilities']: {0: Away, 1: Draw, 2: Home}, summing to one
EngineProbabilities ==
    {PD3(t[1], t[2], t[3]) :
        t \in {x \in ProbGrid \X ProbGrid \X ProbGrid : x[1] + x[2] + x[3] = 1000}}

\* the results of advanced_predict_match the services receive
EngineResults ==
    [probabilities : EngineProbabilities,
     historical_probs : {NoProbs, Triple(550, 250, 200), Triple(200, 250, 550)}]

NoResponse == [Home |-> -1, Draw |-> -1, Away |-> -1]

\* sum(prob_dict.values())
response_total(pdict) == pdict.Home + pdict.Draw + pdict.Away

\* {k: v/total for k, v in prob_dict.items()}
response_normalized(pdict, total) ==
    [Home |-> FDiv(pdict.Home * 1000, total),
     Draw |-> FDiv(pdict.Draw * 1000, total),
     Away |-> FDiv(pdict.Away * 1000, total)]

\* the development service's reading of the integer keys: 2 = Home, 1 = Draw,
\* 0 = Away (the engine's dictionary has no string keys, so the inner get
\* yields its default)
integer_keyed(probs) ==
    [Home |-> PDGet(probs, 2, 330),
     Draw |-> PDGet(probs, 1, 330),
     Away |-> PDGet(probs, 0, 330)]

\* the production service's reading of the integer keys
production_keyed(probs) ==
    [Home |-> PDGet(probs, 0, 330),
     Draw |-> PDGet(probs, 1, 330),
     Away |-> PDGet(probs, 2, 330)]

\* production predict: extract, then normalise when the total is positive
production_prob_dict(res) ==
    LET pdict == production_keyed(res.probabilities)
        total == response_total(pdict)
    IN IF total > 0 THEN response_normalized(pdict, total) ELSE pdict

\* max(0.0, min(1.0, v)) of every entry
response_clamped(pdict) ==
    [k \in DOMAIN pdict |->
        IF pdict[k] < 0 THEN 0 ELSE IF pdict[k] > 1000 THEN 1000
        ELSE pdict[k]]

\* development predict: historical_probs (percent) when the result has them,
\* else the integer-keyed probabilities; normalised when the total is more
\* than 0.01 off one; clamped to [0, 1]
development_prob_dict(res) ==
    LET hp == res.historical_probs
        pdict == IF hp # NoProbs
                     THEN [Home |-> hp[HOME], Draw |-> hp[DRAW], Away |-> hp[AWAY]]
                     ELSE integer_keyed(res.probabilities)
        total == response_total(pdict)
    IN response_clamped(IF total > 0 /\ Abs(total - 1000) > 10
                        THEN response_normalized(pdict, total)
                        ELSE pdict)

InitApi ==
    /\ a_result \in EngineResults
    /\ a_prod = NoResponse
    /\ a_dev = NoResponse
    /\ IdleForm /\ IdleOther_api
    /\ h_in = NoTable /\ h_out = NoProbs
    /\ InitAPM
    /\ IdleDFP

\* POST /predict of fastapi_predictor_production
PredictProduction ==
    /\ a_prod = NoResponse
    /\ a_prod' = production_prob_dict(a_result)
    /\ UNCHANGED <<a_result, a_dev, other_api>>

\* POST /predict of fastapi_predictor
PredictDevelopment ==
    /\ a_dev = NoResponse
    /\ a_dev' = development_prob_dict(a_result)
    /\ UNCHANGED <<a_result, a_prod, other_api>>

NextApi == PredictProduction \/ PredictDevelopment

SpecApi == InitApi /\ [][NextApi]_vars

----------------------------------------------------------------------------
(* The team enumeration of preprocess_for_models *)

\* the calls of preprocess_for_models in one process
MaxEncCalls == 2

\* the rows of a table passed as data
MaxEncRows == 2

\* a missing cell of the HomeTeam or AwayTeam column
NaN == "nan"

\* the rows the tables are made of
EncRows ==
    {[HomeTeam |-> "Arsenal", AwayTeam |-> "Chelsea"],
     [HomeTeam |-> "Chelsea", AwayTeam |-> "Arsenal"],
     [HomeTeam |-> "Basel", AwayTeam |-> "Chelsea"],
     [HomeTeam |-> NaN, AwayTeam |-> "Basel"]}

\* str(data.columns.tolist()) of the two datasets' tables
ColumnLists == {"dataset1_columns", "dataset2_columns"}

EncRowSeqs == UNION {[1..n -> EncRows] : n \in 1..MaxEncRows}

EncTables == [rows : EncRowSeqs, columns : ColumnLists]

\* hash((len(data), str(data.columns.tolist()))), taken as free of collisions
data_hash(data) == <<Len(data.rows), data.columns>>

\* data[column].dropna().astype(str).unique()
unique_teams(data, column) ==
    {data.rows[i][column] : i \in DOMAIN data.rows} \ {NaN}

\* sorted(set(home_teams) | set(away_teams))
scan_teams(data) == unique_teams(data, "HomeTeam") \cup unique_teams(data, "AwayTeam")

\* preprocess_for_models before its first call has no _module_teams_cache
NoTeamsCache == [set |-> FALSE, hash |-> <<0, "">>, teams |-> {}]

NoEncCall == [data |-> [rows |-> <<>>, columns |-> ""], all_teams |-> {}]

\* not hasattr(..., '_module_teams_cache') or cache.get('hash') != data_hash
cache_invalid(data, cache) == ~cache.set \/ cache.hash # data_hash(data)

\* all_teams of one call
all_teams_of(data, cache) ==
    IF cache_invalid(data, cache) THEN scan_teams(data) ELSE cache.teams

InitEnc ==
    /\ e_cache = NoTeamsCache
    /\ e_calls = 0
    /\ e_last = NoEncCall
    /\ IdleForm /\ IdleOther_enc
    /\ h_in = NoTable /\ h_out = NoProbs
    /\ InitAPM
    /\ IdleDFP

\* one call of preprocess_for_models with a table: the enumeration and the
\* cache it leaves behind
Preprocess ==
    /\ e_calls < MaxEncCalls
    /\ \E data \in EncTables :
        /\ e_last' = [data |-> data, all_teams |-> all_teams_of(data, e_cache)]
        /\ e_cache' = IF cache_invalid(data, e_cache)
                      THEN [set |-> TRUE, hash |-> data_hash(data),
                            teams |-> scan_teams(data)]
                      ELSE e_cache
    /\ e_calls' = e_calls + 1
    /\ UNCHANGED other_enc

NextEnc == Preprocess

SpecEnc == InitEnc /\ [][NextEnc]_vars

----------------------------------------------------------------------------
(* The dataset behind the team strengths of a match *)

\* the teams of the category index: the main leagues' and the Others'
StrMainTeams == {"Arsenal", "Chelsea"}
StrOtherTeams == {"Basel", "Lugano"}
StrTeams == StrMainTeams \cup StrOtherTeams

\* the fixtures requested
StrMatches == {m \in [home : StrTeams, away : StrTeams] : m.home # m.away}

\* the recent forms the form calculator reports for a team from a table
StrForms == {<<"W","W","W","W","D">>, <<"L","L","D","L","L">>}

\* for either dataset, the form get_team_recent_form_original reports for
\* each team from the dataset's table
StrDatasets == [{1, 2} -> [StrTeams -> StrForms]]

\* dataset=1, the default of load_football_data's parameter
default_dataset == 1

\* the dataset calculate_team_strength loads: load_football_data() without
\* an argument, whatever the match was routed to
strength_dataset(required) == default_dataset

NoMatch == [home |-> "", away |-> ""]
NoStrengths == [dataset |-> 0, home_strength |-> -1, away_strength |-> -1]

InitStr ==
    /\ s_match \in StrMatches
    /\ s_tables \in StrDatasets
    /\ s_required = 0
    /\ s_strengths = NoStrengths
    /\ IdleForm /\ IdleOther_sd
    /\ h_in = NoTable /\ h_out = NoProbs
    /\ InitAPM
    /\ IdleDFP

\* advanced_predict_match picks the dataset of the match and loads it
RouteMatch ==
    /\ s_required = 0
    /\ s_required' = required_dataset(s_match.home, s_match.away,
                                      StrMainTeams, StrOtherTeams)
    /\ UNCHANGED <<s_match, s_tables, s_strengths, other_sd>>

\* the form correction step: calculate_team_strength of the home and of the
\* away team, each loading its table and reading the team's form from it
ComputeStrengths ==
    /\ s_required # 0
    /\ s_strengths = NoStrengths
    /\ LET ds == strength_dataset(s_required)
       IN s_strengths' =
            [dataset |-> ds,
             home_strength |->
                 calculate_team_strength(s_tables[ds][s_match.home], "home"),
             away_strength |->
                 calculate_team_strength(s_tables[ds][s_match.away], "away")]
    /\ UNCHANGED <<s_match, s_tables, s_required, other_sd>>

NextStr == RouteMatch \/ ComputeStrengths

SpecStr == InitStr /\ [][NextStr]_vars

----------------------------------------------------------------------------
(* Claims about determine_final_prediction (checked under SpecDFP) *)

Called == d_out.branch # "idle"
HasProbs == d_probs # NoProbs

\* Step A of the specification, read with the class indices first
StepABucket(pred) ==
    IF pred.kind # "num" THEN INVALID
    ELSE IF pred.v = 0 \/ (50 <= pred.v /\ pred.v <= 140 /\ pred.v # 100) THEN AWAY
    ELSE IF pred.v = 100 \/ (150 <= pred.v /\ pred.v <= 240 /\ pred.v # 200) THEN DRAW
    ELSE IF pred.v = 200 \/ (250 <= pred.v /\ pred.v <= 340) THEN HOME
    ELSE INVALID

\* the raw prediction is one that Step A normalises to an outcome
ValidPred == StepABucket(d_pred) \in Outcomes

\* w is the single maximum and no other outcome is within 5 points of it
ClearWinner(w) == \A o \in Outcomes \ {w} : d_probs[w] - d_probs[o] > 50

\* a and b are the two outcomes at the top (tied or within 5 points of each
\* other) and the third outcome c is more than 5 points below the maximum
TopPair(a, b, c) ==
    /\ a # b /\ c \notin {a, b}
    /\ d_probs[a] >= d_probs[b]
    /\ d_probs[a] - d_probs[b] <= 50
    /\ d_probs[a] - d_probs[c] > 50

PairLabel(a, b) ==
    IF {a, b} = {HOME, DRAW} THEN HOME_OR_DRAW
    ELSE IF {a, b} = {AWAY, DRAW} THEN AWAY_OR_DRAW
    ELSE HOME_OR_AWAY

AllThreeTied == d_probs[HOME] = d_probs[DRAW] /\ d_probs[DRAW] = d_probs[AWAY]

\* C3 (as claimed): a raw prediction in a Step A bucket is mapped to that
\* bucket's outcome (seen when nothing else decides: no historical triple), and
\* every other raw prediction returns the invalid-prediction signal.
C3_StepAMapping ==
    Called =>
        /\ (StepABucket(d_pred) = INVALID => d_out.ret = INVALID)
        /\ (StepABucket(d_pred) \in Outcomes /\ ~HasProbs
                => d_out.ret = StepABucket(d_pred))

\* C4: with one clear historical winner (no other outcome within 5 points),
\* the label returned for a valid model prediction is the model's outcome.
C4_ModelPriorityOnClearWinner ==
    (Called /\ HasProbs /\ ValidPred /\ (\E w \in Outcomes : ClearWinner(w)))
        => d_out.ret = StepABucket(d_pred)

C4_Witness ==
    /\ Called /\ HasProbs /\ ValidPred
    /\ ClearWinner(AWAY)
    /\ StepABucket(d_pred) = HOME
    /\ d_out.ret = HOME

\* C5: when exactly two outcomes are at the top (tied or within 5 points) and
\* the model predicts the third outcome, the double-chance label of the two
\* top outcomes is returned.
C5_DoubleChanceOnThirdOutcome ==
    \A a, b, c \in Outcomes :
        (Called /\ HasProbs /\ TopPair(a, b, c) /\ StepABucket(d_pred) = c)
            => d_out.ret = PairLabel(a, b)

C5_Witness ==
    /\ Called /\ HasProbs
    /\ TopPair(AWAY, DRAW, HOME)
    /\ d_probs[AWAY] > d_probs[DRAW]
    /\ StepABucket(d_pred) = HOME
    /\ d_out.ret = AWAY_OR_DRAW

\* C6 (as claimed): when Home and Draw are the tied-or-close pair and the
\* model predicts Home or Draw, the model's outcome is returned.
C6_ModelInsideHomeDrawPair ==
    (Called /\ HasProbs /\ (TopPair(HOME, DRAW, AWAY) \/ TopPair(DRAW, HOME, AWAY))
        /\ StepABucket(d_pred) \in {HOME, DRAW})
        => d_out.ret = StepABucket(d_pred)

\* C7 (as claimed): when all three historical outcomes are exactly tied the
\* model's outcome is returned, never a double-chance label.
C7_AllTiedTrustsModel ==
    (Called /\ HasProbs /\ AllThreeTied /\ ValidPred)
        => d_out.ret = StepABucket(d_pred)

\* C8 (as claimed): for every historical triple and valid model prediction
\* one of the cases 1-5 returns; the final fallback branch is never reached.
C8_FallbackUnreachable ==
    (Called /\ HasProbs /\ ValidPred) => d_out.branch # "fallback"

----------------------------------------------------------------------------
(* Claims about advanced_predict_match (checked under Spec) *)

Returned == pc = "done" /\ result.kind = "result"

\* the slot of an outcome name
SlotOfOutcome(o) == IF o = "Away" THEN 0 ELSE IF o = "Draw" THEN 1 ELSE 2

\* C1: whenever advanced_predict_match returns a result, on the model path,
\* the historical path and every fallback path, the returned probabilities sum
\* to 1.0 within 0.01 and each of them lies in [0,1].
C1_ProbabilityClosure ==
    Returned =>
        /\ Abs(PDSum(result.probabilities) - 1000) <= 10
        /\ \A i \in DOMAIN result.probabilities :
              /\ result.probabilities[i][2] >= 0
              /\ result.probabilities[i][2] <= 1000

\* C2: in every returned result the outcome field names an outcome that holds
\* the highest returned probability, whatever label the decision table gave.
C2_OutcomeIsArgmax ==
    Returned =>
        PDGet(result.probabilities, SlotOfOutcome(result.outcome), -1)
            = PDMaxVal(result.probabilities)

\* the class lists {0,1,2}, {1,2,3} and {H,D,A}
Classes012 == <<NumPred(0), NumPred(100), NumPred(200)>>
Classes123 == <<NumPred(100), NumPred(200), NumPred(300)>>
ClassesADH == <<StrPred("A"), StrPred("D"), StrPred("H")>>

\* the canonical slot of the outcome a class denotes: 0, 1, 2 and 1, 2, 3
\* count Away, Draw, Home, the letters name the outcome
CanonicalSlot(c) ==
    IF c.kind = "str"
    THEN (IF c.s = "A" THEN 0 ELSE IF c.s = "D" THEN 1 ELSE 2)
    ELSE IF classes = Classes123 THEN (c.v \div 100) - 1 ELSE c.v \div 100

MappedFromModel ==
    /\ pc = "mapped" /\ ~is_regressor
    /\ classes \in {Classes012, Classes123, ClassesADH}
    /\ full_conf # <<>>

\* C9: for a classifier with classes {0,1,2}, {1,2,3} or {H,D,A}, the
\* probability of each class is placed in the canonical slot of the outcome
\* the class denotes (Away 0, Draw 1, Home 2), so the three classes fill
\* three distinct slots.
C9_ClassesFillCanonicalSlots ==
    MappedFromModel =>
        /\ Len(prob_dict) = 3
        /\ \A i \in DOMAIN full_conf :
              PDGet(prob_dict, CanonicalSlot(full_conf[i][1]), -1) = full_conf[i][2]

\* the share of item i once every value above 1.0 is divided by 100 and the
\* values are renormalised
ExpectedShare(fc, i) ==
    LET corrected == [j \in DOMAIN fc |->
                        IF fc[j][2] > 1000 THEN FDiv(fc[j][2], 100) ELSE fc[j][2]]
    IN FDiv(corrected[i] * 1000, SumTo(corrected, Len(fc)))

\* C10: a class probability above 1.0 (a stray percentage such as 65.0) that
\* enters the normalisation is divided by 100 before the renormalisation, so
\* the class ends at about 0.65 of the distribution.
C10_StrayPercentageCorrected ==
    \A i \in DOMAIN full_conf :
        (/\ pc = "normalized" /\ ~is_regressor
         /\ classes \in {Classes012, ClassesADH}
         /\ full_conf[i][2] > 1000)
        => Abs(PDGet(prob_dict, CanonicalSlot(full_conf[i][1]), -1)
               - ExpectedShare(full_conf, i)) <= 10

\* the result came out of the model path (Finalize), not out of a fallback
FromModelPath == Returned /\ result.final # ""

\* the probabilities Step D leaves, recomputed from the inference of the request
StepDProbs ==
    LET mapped == IF is_regressor THEN HistPD(a_probs)
                  ELSE IF classes # <<>>
                       THEN MapItems(classes, full_conf, Len(full_conf))
                       ELSE EmptyPD
    IN NormalizeSteps(IF mapped = EmptyPD THEN HistPD(a_probs) ELSE mapped)

\* 0.6 of the Step-D value plus 0.4 of the form value in every slot, renormalised
ExpectedBlend(pd, form) ==
    LET b == [i \in DOMAIN pd |->
                <<pd[i][1], FDiv(600 * pd[i][2] + 400 * form[pd[i][1] + 1], 1000)>>]
    IN PDNormalize(b, PDSum(b))

SignificantForm == Abs(strength_diff(home_form, away_form)) > 210

\* C11: whenever |strength_diff| > 0.1, the probabilities the model path
\* returns are the Step-D probabilities blended 0.6 / 0.4 with the
\* form-derived triple and renormalised.
C11_ReturnedIsFormBlend ==
    (FromModelPath /\ SignificantForm /\ Len(StepDProbs) = 3) =>
        \A k \in 0..2 :
            Abs(PDGet(result.probabilities, k, -1)
                - PDGet(ExpectedBlend(StepDProbs,
                            FormProbs(strength_diff(home_form, away_form))), k, -1)) <= 2

\* the raw prediction is a number outside every Step A bucket
InvalidRaw == a_pred.kind = "num" /\ model_outcome(a_pred) = INVALID

OrdinaryOutcomes == {"Home", "Draw", "Away"}

\* C12: when the raw prediction of the model maps to no Step A bucket, the
\* request ends with a distinguishable invalid-prediction signal and not with
\* an ordinary Home/Draw/Away outcome.
C12_InvalidPredictionSurfaced ==
    (pc = "done" /\ InvalidRaw) =>
        (result.kind = "result" /\ result.outcome \notin OrdinaryOutcomes)

\* the classifier produced the prediction and the class probabilities
InferenceSucceeded ==
    /\ input_data = "ok"
    /\ ~predict_raised
    /\ (is_regressor \/ full_conf # <<>>)

\* the model types that carry no tag after the model's name
UntaggedModelTypes == {"Model1", "Model2"}

\* C13: every result produced without a successful classifier inference (no
\* feature vector, or predict / predict_proba raised) carries a model_type
\* with a distinguishing fallback tag, for Model1 and for Model2.
C13_DegradedResultsAreTagged ==
    (Returned /\ ~InferenceSucceeded) => result.model_type \notin UntaggedModelTypes

DataUnavailable == data_file \in {"missing", "unreadable"}

\* C14: when the dataset file is missing or unreadable the loader returns the
\* empty table without raising, and the request still ends with a heuristic
\* fallback result, never with no result.
C14_DataUnavailableDegrades ==
    /\ (pc # "routed" /\ DataUnavailable) => data_empty
    /\ (pc = "done" /\ DataUnavailable) =>
          /\ Returned
          /\ result.model_type \in {"Model1 (Form-Based Fallback)",
                                    "Model2 (Form-Based Fallback)"}

C14_Witness ==
    /\ pc = "done" /\ data_file = "unreadable" /\ data_empty
    /\ Returned /\ result.model_type = "Model2 (Form-Based Fallback)"

\* one team of the European category and one of the other category
StraddleCategories == {home_cat, away_cat} = {"main", "other"}

\* C15: when the two teams belong to different categories, the request
\* produces its prediction with the European dataset and the European model
\* (Model1).
C15_MixedUsesEuropeanPair ==
    (pc = "done" /\ StraddleCategories /\ ~data_empty) =>
        (Returned /\ result.model_type = "Model1")

----------------------------------------------------------------------------
(* Claims about calculate_probabilities_original *)

Computed == h_out # NoProbs

OnlyDir(rows, dir) == rows # <<>> /\ \A i \in 1..Len(rows) : rows[i].dir = dir

\* the result of a fixture seen from the other side's home
MirrorCode(c) ==
    IF c = StrPred("H") THEN StrPred("A")
    ELSE IF c = StrPred("A") THEN StrPred("H")
    ELSE IF c = NumPred(200) THEN NumPred(0)
    ELSE IF c = NumPred(0) THEN NumPred(200)
    ELSE c

\* the same fixtures recorded as reverse fixtures with mirrored results
MirrorTable(t) ==
    [t EXCEPT !.rows = [i \in 1..Len(t.rows) |->
        [dir |-> "rev", res |-> MirrorCode(t.rows[i].res)]]]

\* the same rows recorded as fixtures of the other direction
TurnTable(t) ==
    [t EXCEPT !.rows = [i \in 1..Len(t.rows) |->
        [dir |-> "rev", res |-> t.rows[i].res]]]

SwapHomeAway(p) == Triple(p[AWAY], p[DRAW], p[HOME])

\* C16: the triple computed from a table holding only fixtures of home
\* against away equals the triple computed from the table holding the same
\* fixtures as reverse fixtures with mirrored results, and is the Home/Away
\* swap of the triple computed when the same rows are reverse fixtures.
C16_H2HSymmetry ==
    (Computed /\ ~h_in.data_empty /\ h_in.schema = "v1"
     /\ OnlyDir(h_in.rows, "fwd"))
    => /\ h_out = calculate_probabilities_table(MirrorTable(h_in))
       /\ h_out = SwapHomeAway(calculate_probabilities_table(TurnTable(h_in)))

C16_Witness ==
    /\ Computed
    /\ ~h_in.data_empty /\ h_in.schema = "v1"
    /\ OnlyDir(h_in.rows, "fwd")
    /\ Len(h_in.rows) = 3
    /\ h_out = Triple(667, 333, 0)
    /\ calculate_probabilities_table(TurnTable(h_in)) = Triple(0, 333, 667)

InPercentRange(p) == \A o \in Outcomes : 0 <= p[o] /\ p[o] <= 1000

SumOfTriple(p) == p[HOME] + p[DRAW] + p[AWAY]

\* the result column holds one of the supported encodings throughout: the
\* letters, or numbers (integer codes and the values of the float ranges)
SupportedColumn(rows) ==
    \/ \A i \in 1..Len(rows) : rows[i].res.kind = "str"
    \/ \A i \in 1..Len(rows) : rows[i].res.kind = "num"

\* C17: for every table whose result column uses a supported encoding (and
\* for a table without rows of the two teams) the three returned percentages
\* lie in [0,100] and sum to 100 within a tolerance of 1.0.
C17_TripleSumsToHundred ==
    (Computed /\ SupportedColumn(h_in.rows)) =>
        /\ InPercentRange(h_out)
        /\ SumOfTriple(h_out) >= 990
        /\ SumOfTriple(h_out) <= 1010

NoRowsOfTheTeams == ~h_in.data_empty /\ h_in.schema = "v1" /\ h_in.rows = <<>>

\* C18: when the table has no row of the two teams in either direction, the
\* returned triple is the one the strength-difference decision table of the
\* empty-table case gives for the same strength difference.
C18_NoRowsUsesEmptyTableDecision ==
    (Computed /\ NoRowsOfTheTeams)
    => h_out = StrengthTable1(strength_diff(h_in.hf, h_in.af))

----------------------------------------------------------------------------
(* Claims about get_team_recent_form_original *)

FormComputed == f_out # NoForm

\* the rows the form calculator retains for the call, most recent first
RetainedRows ==
    IF f_in.data # "table" THEN <<>>
    ELSE head5(sort_by_date_desc(
            recent_matches(parsed(f_in.rows), strip(f_in.team))))

\* the team of the call is the home side of the row
TeamWasHome(row) == row.home \in ClubCells

ExpectedLetter(row) ==
    IF row.res = "D" THEN "D"
    ELSE IF (row.res = "H" /\ TeamWasHome(row))
            \/ (row.res = "A" /\ ~TeamWasHome(row)) THEN "W"
    ELSE "L"

\* C19: for every retained row, whichever tier of the name matching retained
\* it, the form letter is D for a draw, W when the team was the home side and
\* the home side won or was the away side and the away side won, L otherwise.
C19_FormLetterFollowsResult ==
    FormComputed =>
        \A i \in 1..Len(RetainedRows) : f_out[i] = ExpectedLetter(RetainedRows[i])

\* the no-data synthetic path: the call returns without a retained row
NoDataPath == RetainedRows = <<>>

\* C20: when the no-data synthetic path triggers for a name of the manual
\* override table, the form calculator returns that table's form for the name
\* instead of the hash-derived form.
C20_ManualOverrideOnNoData ==
    (FormComputed /\ NoDataPath /\ f_in.team \in DOMAIN MANUAL_FORM_LOOKUP)
    => f_out = MANUAL_FORM_LOOKUP[f_in.team]

----------------------------------------------------------------------------
(* Claims about calculate_team_strength *)

StrengthComputed == f_strength.side # "none"

\* the form the strength is computed from, most recent match first
StrengthForm == get_team_recent_form_original(f_in)

\* the weighted share when the most recent match (first letter) weighs 1.8
\* and the oldest (fifth letter) 1.0
RecencyWeightedShare(form) ==
    (2100 * SumTo([i \in 1..5 |-> form_points(form[i]) * weights[6 - i]], 5))
        \div (3 * SumTo(weights, 5))

\* C21: team strength weights the five form results with 1.0, 1.2, 1.4, 1.6,
\* 1.8 so that the most recent match gets 1.8 and the oldest 1.0, divided by
\* three times the sum of the weights, a value in [0,1].
C21_MostRecentWeighsMost ==
    (StrengthComputed /\ RetainedRows # <<>>) =>
        /\ f_strength.form_strength = RecencyWeightedShare(StrengthForm)
        /\ f_strength.form_strength >= 0
        /\ f_strength.form_strength <= 2100

----------------------------------------------------------------------------
(* Claims about load_football_data *)

\* two successive calls were made for the same dataset id
TwoLoadsOfOneDataset ==
    Len(l_calls) = 2 /\ l_calls[1].dataset = l_calls[2].dataset

SameTable(a, b) == a.rows = b.rows /\ a.tag = b.tag

----------------------------------------------------------------------------
(* Claims about the team-category index *)

RECURSIVE TeamsOfCategory(_, _)
TeamsOfCategory(i, european) ==
    IF i = 0 THEN {}
    ELSE TeamsOfCategory(i - 1, european)
         \cup IF (LEAGUES_BY_CATEGORY[i].category = "European Leagues") = european
              THEN LEAGUES_BY_CATEGORY[i].teams ELSE {}

CompleteMain == TeamsOfCategory(Len(LEAGUES_BY_CATEGORY), TRUE)
CompleteOther == TeamsOfCategory(Len(LEAGUES_BY_CATEGORY), FALSE)
CompleteIndex ==
    [published |-> TRUE, main_teams |-> CompleteMain, other_teams |-> CompleteOther]

\* C24: under concurrent first calls every call routes with the complete
\* team-category index, no call observes a partially built index, and every
\* recomputation publishes the identical index.
C24_RoutesWithCompleteIndex ==
    /\ c_cache \in {NoIndex, CompleteIndex}
    /\ \A t \in DOMAIN c_thr :
        /\ c_thr[t].pc \in {"read_other", "route", "routed"}
            => c_thr[t].main_teams = CompleteMain
        /\ c_thr[t].pc \in {"route", "routed"}
            => c_thr[t].other_teams = CompleteOther
        /\ c_thr[t].pc = "routed"
            => c_thr[t].dataset = required_dataset(c_thr[t].home,
                    c_thr[t].away, CompleteMain, CompleteOther)

\* two calls both found the index unbuilt, both built and published it, and
\* one of them was routed to dataset 2
C24_Witness ==
    /\ DOMAIN c_thr # {}
    /\ \A t \in DOMAIN c_thr : c_thr[t].pc = "routed" /\ c_thr[t].built
    /\ \E t \in DOMAIN c_thr : c_thr[t].dataset = 2

----------------------------------------------------------------------------
(* Claims about RateLimitMiddleware *)

\* C25: under any interleaving of concurrent requests from one IP at most
\* RATE_LIMIT_REQUESTS non-admin, non-static requests are admitted within one
\* window (here: since the last tick of the clock, less than a window ago).
C25_AtMostLimitAdmitted == r_admitted <= RATE_LIMIT_REQUESTS

\* C28: a client that never sends more than RATE_LIMIT_REQUESTS requests in
\* any window (here: one that has sent at most one request per tick of the
\* clock) is never answered 429, however long it keeps sending.
C28_PoliteClientNeverRejected == r_polite => r_rejected = 0

----------------------------------------------------------------------------
(* Claims about the history view *)

\* C26: a bulk delete removes only predictions of the requester: those owned
\* by the requesting user, or for an anonymous requester those of their own
\* session; no requester deletes a prediction somebody else saved.
C26_DeleteOnlyOwn ==
    \A p \in p_last.deleted :
        /\ p.creator = p_last.person
        /\ IF p_last.mode = "user" THEN p.user = p_last.person
           ELSE p.user = NullKey /\ p.session_key = p_last.person

----------------------------------------------------------------------------
(* Claims about the FastAPI services *)

\* C27: the production /predict response reports under Home, Draw and Away
\* the probabilities the engine assigned to key 2, key 1 and key 0, the
\* mapping the development service applies to the integer-keyed
\* probabilities.
C27_ProductionMapsLikeDevelopment ==
    a_prod # NoResponse =>
        /\ a_prod.Home = PDGet(a_result.probabilities, 2, 330)
        /\ a_prod.Draw = PDGet(a_result.probabilities, 1, 330)
        /\ a_prod.Away = PDGet(a_result.probabilities, 0, 330)
        /\ a_prod = integer_keyed(a_result.probabilities)

----------------------------------------------------------------------------
(* Claims about the team enumeration of preprocess_for_models *)

\* C29: in every call of preprocess_for_models, the team enumeration used
\* for the one-hot encoding equals the set of team names in the table passed
\* to that call, also when it comes from the fingerprint-keyed cache.
C29_EnumerationIsOfThisTable ==
    e_calls > 0 => e_last.all_teams = scan_teams(e_last.data)

----------------------------------------------------------------------------
(* Claims about the dataset behind the team strengths *)

\* C30: the team strengths used for a match are computed from the teams'
\* recent form in the dataset the match was routed to (dataset 2 when both
\* teams are in the Others category).
C30_StrengthsFromRoutedDataset ==
    s_strengths # NoStrengths =>
        /\ s_strengths.dataset = s_required
        /\ s_strengths.home_strength =
               calculate_team_strength(s_tables[s_required][s_match.home], "home")
        /\ s_strengths.away_strength =
               calculate_team_strength(s_tables[s_required][s_match.away], "away")

====
